---- MODULE Spec2Model ----
(***************************************************************************)
(* A model of kami-dataset-validator: the customer data validator          *)
(* (validate_customer.py) driving the CEP, CNPJ, CPF, phone and e-mail     *)
(* validators (validators/*.py) over a tabular dataset, and joining the    *)
(* per-field result tables on the customer id.                             *)
(*                                                                         *)
(* Python strings are sequences of one-character strings; Python None is   *)
(* NoneVal (for cell values) or NoneStr (for names).  A Python call that   *)
(* can raise is an operator returning [exc |-> type, msg |-> text, ...],   *)
(* with exc = "ok" when it returns normally.                               *)
(***************************************************************************)
EXTENDS Integers, Sequences, FiniteSets, TLC

\* ------------------------------------------------------------------ bounds
MaxRows == 2
MaxFields == 1
MaxRequests == 2
MaxItems == 3
MaxCandidates == 3

\* ------------------------------------------------------- Python primitives
NoneVal == <<"<None>">>
NoneStr == "<None>"

Digits == {"0", "1", "2", "3", "4", "5", "6", "7", "8", "9"}

DigitVal(c) ==
    CASE c = "0" -> 0 [] c = "1" -> 1 [] c = "2" -> 2 [] c = "3" -> 3
      [] c = "4" -> 4 [] c = "5" -> 5 [] c = "6" -> 6 [] c = "7" -> 7
      [] c = "8" -> 8 [] c = "9" -> 9

\* str.replace(ch, '')
StrRemove(s, ch) == SelectSeq(s, LAMBDA c : c # ch)

\* str.isdigit(): false on the empty string
IsDigit(s) == Len(s) > 0 /\ \A i \in 1..Len(s) : s[i] \in Digits

\* bool(value) of a str-or-None cell
Truthy(v) == v # NoneVal /\ v # <<>>

\* s[:n]
Prefix(s, n) == SubSeq(s, 1, IF Len(s) < n THEN Len(s) ELSE n)

RECURSIVE WeightedSum(_, _, _)
WeightedSum(digits, weights, i) ==
    IF i > Len(weights) THEN 0
    ELSE DigitVal(digits[i]) * weights[i] + WeightedSum(digits, weights, i + 1)

AllSameDigit(s) == \A i \in 1..Len(s) : s[i] = s[1]

Ok(v) == [exc |-> "ok", msg |-> "", val |-> v]
Raise(type, text) == [exc |-> type, msg |-> text, val |-> NoneVal]

\* str.lower() on the names that occur in the catalogs and in field lists
Lower(s) ==
    CASE s = "ViaCEP" -> "viacep"
      [] s = "Brasil_Aberto" -> "brasil_aberto"
      [] s = "OpenCEP" -> "opencep"
      [] s = "BrasilAPI" -> "brasilapi"
      [] s = "CEP" -> "cep"
      [] s = "CNPJ" -> "cnpj"
      [] s = "CPF" -> "cpf"
      [] s = "Phone" -> "phone"
      [] s = "Email" -> "email"
      [] OTHER -> s

\* ------------------------------------------------------ registry catalogs
\* cep.py CEP_WEBSERVICES: key -> display name, endpoint template,
\* address-search capability
CEP_WEBSERVICES ==
    [viacep |-> [name |-> "ViaCEP",
                 BASE_URL |-> "https://viacep.com.br/ws/{}/json/",
                 supports_address |-> TRUE],
     brasilaberto |-> [name |-> "Brasil_Aberto",
                       BASE_URL |-> "https://brasilaberto.com/api/v1/zipcode/{}",
                       supports_address |-> FALSE],
     opencep |-> [name |-> "OpenCEP",
                  BASE_URL |-> "https://opencep.com/v1/{}",
                  supports_address |-> FALSE],
     brasilapi |-> [name |-> "BrasilAPI",
                    BASE_URL |-> "https://brasilapi.com.br/api/cep/v2/{}",
                    supports_address |-> FALSE]]

\* constants.py CNPJ_WEBSERVICES: key -> endpoint template
CNPJ_WEBSERVICES ==
    [brasilaberto |-> [BASE_URL |-> "https://brasilaberto.com/api/v1/cnpj/{}"],
     brasilapi |-> [BASE_URL |-> "https://brasilapi.com.br/api/cnpj/v1/{}"],
     receitaws |-> [BASE_URL |-> "https://receitaws.com.br/v1/cnpj/{}"]]

\* CepAPI.available_webservices: the lower-cased display names
CepAPI_available_webservices ==
    {Lower(CEP_WEBSERVICES[k].name) : k \in DOMAIN CEP_WEBSERVICES}

\* ------------------------------------------------------------ CEP (local)
\* a sanitizer that tests the length of the raw value, dash included
SanitizeCepRawLength(cep) ==
    IF ~Truthy(cep) THEN Raise("CEPFormatError", "CEP cannot be empty.")
    ELSE IF Len(cep) # 9
    THEN Raise("CEPFormatError", "Invalid CEP. A valid CEP must have 8 numbers.")
    ELSE Ok(StrRemove(StrRemove(StrRemove(cep, "-"), "."), " "))

\* Address._sanitize_cep
SanitizeCep(cep) ==
    IF ~Truthy(cep) THEN Raise("CEPFormatError", "CEP cannot be empty.")
    ELSE LET sanitized_cep == StrRemove(StrRemove(StrRemove(cep, "-"), "."), " ")
         IN  IF Len(sanitized_cep) # 8
             THEN Raise("CEPFormatError",
                        "Invalid CEP. A valid CEP must have 8 numbers.")
             ELSE IF ~IsDigit(sanitized_cep)
             THEN Raise("CEPFormatError",
                        "Invalid CEP. A CEP must contain only numbers.")
             ELSE Ok(sanitized_cep)

\* Address.validate_cep: never raises
ValidateCepLocal(cep) ==
    IF Truthy(cep)
    THEN LET s == SanitizeCep(cep)
         IN  IF s.exc = "ok"
             THEN IF Truthy(s.val)
                  THEN [valid |-> TRUE, reason |-> "Valid CEP format."]
                  ELSE [valid |-> FALSE, reason |-> "Invalid CEP format."]
             ELSE [valid |-> FALSE, reason |-> s.msg]
    ELSE [valid |-> FALSE, reason |-> "CEP not provided."]

\* ------------------------------------------------------------ CNPJ (local)
\* CNPJValidator._sanitize_cnpj, run by CNPJValidator.__init__
SanitizeCnpj(cnpj) ==
    IF cnpj = NoneVal
    THEN Raise("AttributeError", "'NoneType' object has no attribute 'replace'")
    ELSE LET sanitized_cnpj ==
                 StrRemove(StrRemove(StrRemove(StrRemove(cnpj, "."), "/"), "-"), ",")
         IN  IF ~IsDigit(sanitized_cnpj)
             THEN Raise("CNPJValueError",
                        "Invalid CNPJ format. Ensure it contains only numbers.")
             ELSE IF Len(sanitized_cnpj) # 14
             THEN Raise("CNPJValueError",
                        "Invalid CNPJ length. Ensure it has 14 digits.")
             ELSE Ok(sanitized_cnpj)

\* validate_docbr CNPJ().validate: the check-digit oracle (modulus 11)
CnpjCheckDigit(digits, weights) ==
    LET r == WeightedSum(digits, weights, 1) % 11
    IN  IF r < 2 THEN 0 ELSE 11 - r

CnpjOracle(doc) ==
    /\ Len(doc) = 14
    /\ IsDigit(doc)
    /\ ~AllSameDigit(doc)
    /\ CnpjCheckDigit(doc, <<5, 4, 3, 2, 9, 8, 7, 6, 5, 4, 3, 2>>) = DigitVal(doc[13])
    /\ CnpjCheckDigit(doc, <<6, 5, 4, 3, 2, 9, 8, 7, 6, 5, 4, 3, 2>>) = DigitVal(doc[14])

\* a validator that accepts every sanitized CNPJ
CnpjValidateUnchecked(sanitized_cnpj) == Ok(TRUE)

\* CNPJValidator.validate: True, or raises
CnpjValidate(sanitized_cnpj) ==
    IF ~CnpjOracle(sanitized_cnpj)
    THEN Raise("CNPJValueError", "The provided CNPJ is not valid.")
    ELSE Ok(TRUE)

\* ------------------------------------------------------------- CPF (local)
\* CPFValidator._sanitize_cpf, run by CPFValidator.__init__
SanitizeCpf(cpf) ==
    IF cpf = NoneVal
    THEN Raise("AttributeError", "'NoneType' object has no attribute 'replace'")
    ELSE LET sanitized_cpf == StrRemove(StrRemove(StrRemove(cpf, "."), "-"), ",")
         IN  IF ~IsDigit(sanitized_cpf)
             THEN Raise("CPFValueError",
                        "Invalid CPF format. Ensure it contains only numbers.")
             ELSE IF Len(sanitized_cpf) # 11
             THEN Raise("CPFValueError", "Invalid CPF length. Ensure it has 11 digits.")
             ELSE Ok(sanitized_cpf)

\* validate_docbr CPF().validate: the check-digit oracle (modulus 11)
CpfCheckDigit(digits, weights) ==
    LET r == (WeightedSum(digits, weights, 1) * 10) % 11
    IN  IF r = 10 THEN 0 ELSE r

CpfOracle(doc) ==
    /\ Len(doc) = 11
    /\ IsDigit(doc)
    /\ ~AllSameDigit(doc)
    /\ CpfCheckDigit(doc, <<10, 9, 8, 7, 6, 5, 4, 3, 2>>) = DigitVal(doc[10])
    /\ CpfCheckDigit(doc, <<11, 10, 9, 8, 7, 6, 5, 4, 3, 2>>) = DigitVal(doc[11])

\* CPFValidator.validate: True, or raises
CpfValidate(sanitized_cpf) ==
    IF ~CpfOracle(sanitized_cpf)
    THEN Raise("CPFValueError", "The provided CPF is not valid.")
    ELSE Ok(TRUE)

\* one iteration of CPFValidator.validate_cpfs: every exception is caught
ValidateCpf(cpf) ==
    LET s == SanitizeCpf(cpf)
        v == CpfValidate(s.val)
    IN  IF s.exc # "ok" THEN [valid |-> FALSE, reason |-> s.msg]
        ELSE IF v.exc # "ok" THEN [valid |-> FALSE, reason |-> v.msg]
        ELSE [valid |-> v.val,
              reason |-> IF v.val THEN "Valid CPF." ELSE "Invalid CPF."]

\* CPFValidator.validate_cpfs: one result per element, in order
CpfResult(cpf, result) ==
    [cpf |-> cpf, valid |-> result.valid, reason |-> result.reason]

RECURSIVE ValidateCpfs(_)
ValidateCpfs(cpfs) ==
    IF cpfs = <<>> THEN <<>>
    ELSE <<CpfResult(Head(cpfs), ValidateCpf(Head(cpfs)))>> \o ValidateCpfs(Tail(cpfs))

\* ------------------------------------------------------- registry answers
\* What an HTTP GET can come back with: a transport failure (httpx.RequestError)
\* or a status with a JSON payload (a dict: a function on its keys).
\* json: whether the body parses as JSON (response.json() raises otherwise).
TransportFailure ==
    [transport_ok |-> FALSE, status |-> 0, json |-> FALSE, payload |-> [error |-> "none"]]
HttpAnswer(status, payload) ==
    [transport_ok |-> TRUE, status |-> status, json |-> TRUE, payload |-> payload]
HttpText(status) ==
    [transport_ok |-> TRUE, status |-> status, json |-> FALSE,
     payload |-> [text |-> "<html>"]]

\* dict.get(key, default)
DictGet(d, key, default) == IF key \in DOMAIN d THEN d[key] ELSE default

\* the registry's own formatting of a 14-digit CNPJ: 11.222.333/0001-81
FormatCnpj(d) ==
    SubSeq(d, 1, 2) \o <<".">> \o SubSeq(d, 3, 5) \o <<".">> \o SubSeq(d, 6, 8)
      \o <<"/">> \o SubSeq(d, 9, 12) \o <<"-">> \o SubSeq(d, 13, 14)

OtherCnpj == <<"0", "6", "9", "9", "0", "5", "9", "0", "0", "0", "0", "1", "2", "3">>

\* the answers the environment may give to a CEP lookup of `code`
CepAnswers(code) ==
    { TransportFailure,
      HttpAnswer(404, [message |-> "not found"]),
      HttpAnswer(200, [cep |-> code]),
      HttpAnswer(200, [erro |-> "true"]),
      HttpAnswer(200, [cep |-> <<>>]) }

\* the answers the environment may give to a CNPJ lookup of `code`
CnpjAnswers(code) ==
    { TransportFailure,
      HttpAnswer(429, [message |-> "too many requests"]),
      HttpAnswer(200, [cnpj |-> FormatCnpj(code)]),
      HttpAnswer(200, [cnpj |-> OtherCnpj]),
      HttpAnswer(200, [result |-> [baseCnpj |-> Prefix(code, 8)]]),
      HttpAnswer(200, [message |-> "not found"]) }

\* a lookup that looks at the transport only, not at the status
FetchAnyStatus(answer) ==
    IF ~answer.transport_ok
    THEN Raise("APIRequestError", "An error occurred while requesting the url.")
    ELSE [exc |-> "ok", msg |-> "", val |-> answer.payload]

\* CepAPI._fetch_by_cep / CnpjAPI.fetch_company_info: the payload, or raises
Fetch(answer) ==
    IF ~answer.transport_ok
    THEN Raise("APIRequestError", "An error occurred while requesting the url.")
    ELSE IF answer.status # 200
    THEN Raise("APIRequestError", "Failed to fetch data from the url.")
    ELSE IF ~answer.json
    THEN Raise("JSONDecodeError", "Expecting value: line 1 column 1 (char 0)")
    ELSE [exc |-> "ok", msg |-> "", val |-> answer.payload]

\* ----------------------------------------------------------- CEP (external)
\* What a client's per-record check comes to.  exc: what escapes the call
\* ("ok": it returns); val: the outcome it returns; requested, code: whether
\* a registry request was issued, and for which code.
ApiOut(valid, reason, requested, code) ==
    [exc |-> "ok", msg |-> "", requested |-> requested, code |-> code,
     val |-> [valid |-> valid, reason |-> reason]]
ApiEscape(type, text, requested, code) ==
    [exc |-> type, msg |-> text, requested |-> requested, code |-> code,
     val |-> [valid |-> FALSE, reason |-> ""]]

\* a constructor that falls back to its default backend
CepApiInitDefault(webservice) ==
    LET w == IF webservice \in DOMAIN CEP_WEBSERVICES THEN webservice ELSE "brasilapi"
    IN  Ok([webservice |-> w, base_url |-> CEP_WEBSERVICES[w].BASE_URL])

\* CepAPI.__init__: the client, or raises
CepApiInit(webservice) ==
    IF webservice \notin DOMAIN CEP_WEBSERVICES
    THEN Raise("APIConfigError", "Unsupported webservice.")
    ELSE Ok([webservice |-> webservice,
             base_url |-> CEP_WEBSERVICES[webservice].BASE_URL])

\* Address.sanitize_cep: True (and the address now holds the sanitized code),
\* or re-raises what _sanitize_cep raised
SanitizedAddress(address, s) ==
    IF s.exc = "ok"
    THEN [exc |-> "ok", msg |-> "", val |-> TRUE, cep |-> s.val]
    ELSE [exc |-> s.exc, msg |-> s.msg, val |-> FALSE, cep |-> address.cep]

AddressSanitizeCep(address) == SanitizedAddress(address, SanitizeCep(address.cep))

\* CepAPI._suports_address
SupportsAddress(webservice) == CEP_WEBSERVICES[webservice].supports_address

\* validate_address's except clause when every exception type escapes it: the
\* clause with nothing in it
CatchesNothing(type) == FALSE

\* an except clause for the request error only
CatchesRequestError(type) == type = "APIRequestError"

\* validate_address: except (CEPFormatError, InvalidAddressInputError,
\* APIRequestError)
Catches(type) ==
    type \in {"CEPFormatError", "InvalidAddressInputError", "APIRequestError"}

\* the body of CepAPI.validate_address: san is what address.sanitize_cep()
\* came to, data what _fetch_by_cep comes to if it is called
CepDecide(webservice, address, san, data) ==
    IF san.exc # "ok"
    THEN \* CEPFormatError is caught: reason = str(e)
         IF Catches(san.exc) THEN ApiOut(FALSE, san.msg, FALSE, san.cep)
         ELSE ApiEscape(san.exc, san.msg, FALSE, san.cep)
    ELSE IF san.val
    THEN IF data.exc # "ok"
         THEN \* APIRequestError is caught: reason = str(e)
              IF Catches(data.exc) THEN ApiOut(FALSE, data.msg, TRUE, san.cep)
              ELSE ApiEscape(data.exc, data.msg, TRUE, san.cep)
         ELSE IF "cep" \notin DOMAIN data.val
         THEN \* data['cep'] raises KeyError, which is not caught
              ApiEscape("KeyError", "'cep'", TRUE, san.cep)
         ELSE IF Truthy(data.val["cep"])
         THEN ApiOut(TRUE, "Valid CEP.", TRUE, san.cep)
         ELSE ApiOut(FALSE, "", TRUE, san.cep)
    ELSE IF Truthy(address.street) /\ Truthy(address.city)
            /\ Truthy(address.state) /\ SupportsAddress(webservice)
    THEN \* self._fetch_by_address is not defined on CepAPI
         ApiEscape("AttributeError",
                   "'CepAPI' object has no attribute '_fetch_by_address'", FALSE, san.cep)
    ELSE IF Truthy(address.cep)
    THEN ApiOut(FALSE, "Invalid CEP.", FALSE, san.cep)
    ELSE ApiOut(FALSE, "Insufficient address information.", FALSE, san.cep)

\* CepAPI.validate_address, given the answer a request would get
CepValidateAddress(webservice, address, answer) ==
    CepDecide(webservice, address, AddressSanitizeCep(address), Fetch(answer))

\* ---------------------------------------------------------- CNPJ (external)
\* CnpjAPI.__init__
CnpjApiInit(webservice) ==
    IF webservice \notin DOMAIN CNPJ_WEBSERVICES
    THEN Raise("APIConfigError", "Unsupported webservice.")
    ELSE Ok([webservice |-> webservice,
             base_url |-> CNPJ_WEBSERVICES[webservice].BASE_URL])

\* CnpjAPI._sanitize_cnpj (no validation, only strips)
ApiSanitizeCnpj(cnpj) ==
    StrRemove(StrRemove(StrRemove(StrRemove(cnpj, "."), "/"), "-"), ",")

\* CnpjAPI._cnpj_match: validator is CNPJValidator(cnpj)
CnpjMatchWith(webservice, validator, response) ==
    IF validator.exc # "ok"
    THEN [exc |-> validator.exc, msg |-> validator.msg, val |-> FALSE]
    ELSE IF webservice \in {"brasilapi", "receitaws"}
    THEN [exc |-> "ok", msg |-> "",
          val |-> validator.val = ApiSanitizeCnpj(DictGet(response, "cnpj", <<>>))]
    ELSE IF webservice = "brasilaberto"
    THEN [exc |-> "ok", msg |-> "",
          val |-> Prefix(validator.val, 8)
                    = Prefix(DictGet(DictGet(response, "result", <<>>), "baseCnpj", <<>>), 8)]
    ELSE [exc |-> "ok", msg |-> "", val |-> FALSE]

CnpjMatch(webservice, cnpj, response) ==
    CnpjMatchWith(webservice, SanitizeCnpj(cnpj), response)

\* what validate_cnpj leaves in `result` after a successful fetch: the mismatch
\* branch sets valid and reason, and the three assignments after it, which are
\* not in an else branch, run in either case
AfterFetch(matched, code) ==
    LET mismatch == ApiOut(FALSE, "This CNPJ was not found in the API base.", TRUE, code)
        valid_cnpj == [valid |-> TRUE, reason |-> "Valid CNPJ."]
    IN  IF ~matched THEN [mismatch EXCEPT !.val = valid_cnpj]
        ELSE ApiOut(valid_cnpj.valid, valid_cnpj.reason, TRUE, code)

\* the body of CnpjAPI.validate_cnpj: validator is CNPJValidator(cnpj_str),
\* checked what validator.validate() comes to, company_info what
\* fetch_company_info comes to and match what _cnpj_match comes to, if called.
\* Every exception is caught and `finally: return result` returns.
CnpjDecide(validator, checked, company_info, match) ==
    IF validator.exc # "ok" THEN ApiOut(FALSE, validator.msg, FALSE, validator.val)
    ELSE IF checked.exc # "ok" THEN ApiOut(FALSE, checked.msg, FALSE, validator.val)
    ELSE IF ~checked.val THEN ApiOut(FALSE, "Invalid CNPJ.", FALSE, validator.val)
    ELSE IF company_info.exc # "ok"
    THEN ApiOut(FALSE, company_info.msg, TRUE, validator.val)
    ELSE IF match.exc # "ok" THEN ApiOut(FALSE, match.msg, TRUE, validator.val)
    ELSE AfterFetch(match.val, validator.val)

\* CnpjAPI.validate_cnpj, given the answer a request would get
CnpjValidateCnpj(webservice, cnpj_str, answer) ==
    CnpjDecide(SanitizeCnpj(cnpj_str), CnpjValidate(SanitizeCnpj(cnpj_str).val),
               Fetch(answer),
               CnpjMatch(webservice, SanitizeCnpj(cnpj_str).val, Fetch(answer).val))

\* ----------------------------------------------------------- phone, e-mail
\* The phonenumbers and email_validator libraries are oracles on the sample
\* values: which parse, which are valid, which are mobile, which deliver.
ParseablePhones == {"+5511987654321", "+551100000000"}
ValidPhones == {"+5511987654321"}
MobilePhones == {"+5511987654321"}
ValidEmails == {"ana@example.com"}

\* one iteration of PhoneValidator.validate_phone_numbers: every exception is caught
ValidatePhone(number) ==
    IF number \notin ParseablePhones
    THEN [valid |-> FALSE, possible_mobile |-> FALSE,
          reason |-> "The phone number could not be parsed."]
    ELSE IF number \notin ValidPhones
    THEN [valid |-> FALSE, possible_mobile |-> FALSE,
          reason |-> "The provided phone number is not valid."]
    ELSE [valid |-> TRUE, possible_mobile |-> number \in MobilePhones,
          reason |-> "Valid phone number."]

\* one iteration of EmailValidator.validate_emails (on str values)
ValidateEmail(email) ==
    IF email \in ValidEmails
    THEN [valid |-> TRUE, deliverability |-> TRUE, reason |-> "Valid email."]
    ELSE [valid |-> FALSE, deliverability |-> FALSE,
          reason |-> "The email address is not valid."]

\* ------------------------------------------------------------ the dataset
CepDashed == <<"0", "1", "0", "0", "0", "-", "0", "0", "0">>
CepWithLetter == <<"0", "1", "0", "0", "0", "0", "0", "a">>
CepShort == <<"0", "1", "0", "0">>
CnpjFormatted ==
    <<"1", "1", ".", "2", "2", "2", ".", "3", "3", "3", "/", "0", "0", "0", "1", "-", "8", "1">>
CnpjShort == <<"1", "2", "3", "4", "5", "6", "7", "8", "9", "0">>
CnpjBadChecksum ==
    <<"1", "1", "2", "2", "2", "3", "3", "3", "0", "0", "0", "1", "8", "0">>
CnpjWithLetter ==
    <<"1", "2", ".", "3", "4", "5", ".", "6", "7", "8", "/", "0", "0", "0", "1", "-", "9", "x">>
CpfFormatted == <<"1", "2", "3", ".", "4", "5", "6", ".", "7", "8", "9", "-", "0", "9">>
CpfShort == <<"1", "2", "3", "4", "5", "6", "7", "8", "9", "0">>
CpfBadChecksum == <<"1", "2", "3", "4", "5", "6", "7", "8", "9", "0", "0">>

\* the cell values of a record, apart from its customer id
RowSamples ==
    { [cep |-> CepDashed, street |-> <<"R">>, city |-> <<"S">>, state |-> <<"S", "P">>,
       cpf |-> CpfFormatted, cnpj |-> CnpjFormatted,
       phone |-> "+5511987654321", email |-> "ana@example.com"],
      [cep |-> CepWithLetter, street |-> <<"R">>, city |-> <<"S">>, state |-> <<"S", "P">>,
       cpf |-> CpfShort, cnpj |-> CnpjShort,
       phone |-> "123", email |-> "ana@"],
      [cep |-> NoneVal, street |-> NoneVal, city |-> <<"S">>, state |-> <<"S", "P">>,
       cpf |-> CpfBadChecksum, cnpj |-> CnpjBadChecksum,
       phone |-> "+551100000000", email |-> "ana@example.com"],
      [cep |-> CepShort, street |-> <<"R">>, city |-> NoneVal, state |-> <<"S", "P">>,
       cpf |-> NoneVal, cnpj |-> CnpjWithLetter,
       phone |-> "+5511987654321", email |-> "ana@"],
      [cep |-> NoneVal, street |-> <<"R">>, city |-> <<"S">>, state |-> <<"S", "P">>,
       cpf |-> CpfFormatted, cnpj |-> CnpjFormatted,
       phone |-> "+5511987654321", email |-> "ana@example.com"] }

Rows == {[id |-> i] @@ d : i \in 1..MaxRows, d \in RowSamples}

\* customer ids are opaque: datasets are taken up to renaming of the ids, the
\* first row has id 1 and a row has either an earlier id or the next fresh one
CanonicalIds(ds) ==
    \A i \in 1..Len(ds) :
        \/ ds[i].id = 1
        \/ \E j \in 1..(i - 1) : ds[j].id \in {ds[i].id, ds[i].id - 1}

Datasets ==
    {ds \in UNION {[1..n -> Rows] : n \in 0..MaxRows} : CanonicalIds(ds)}

AllColumns == {"id", "cep", "street", "city", "state", "cpf", "cnpj", "phone", "email"}

\* the *_colname attributes given to CustomerDataValidator.__init__
DefinedColnames ==
    [customer_id |-> "id", cep |-> "cep", street |-> "street", city |-> "city",
     state |-> "state", cpf |-> "cpf", cnpj |-> "cnpj", phone |-> "phone",
     email |-> <<"email">>]

\* constructions of the validator: the columns the dataset has, the names given
Constructions ==
    { [columns |-> AllColumns, colnames |-> DefinedColnames],
      [columns |-> AllColumns \ {"cnpj"},
       colnames |-> [DefinedColnames EXCEPT !.cep = NoneStr]] }

\* --------------------------------------------------------------- tables
\* a polars DataFrame: its column names and its rows (functions on the names)
Table(cols, rows) == [columns |-> cols, rows |-> rows]
EmptyTable == Table({}, <<>>)

RECURSIVE Flatten(_)
Flatten(ss) == IF ss = <<>> THEN <<>> ELSE Head(ss) \o Flatten(Tail(ss))

Null == "<null>"

\* a join that pairs every left row with every right row, whatever their keys
CrossJoin(left, right, key) ==
    LET rcols == right.columns \ {key}
        Pair(l, r) == l @@ [c \in rcols |-> r[c]]
    IN  [exc |-> "ok", msg |-> "",
         val |-> Table(left.columns \cup rcols,
                       Flatten([i \in 1..Len(left.rows) |->
                                   [k \in 1..Len(right.rows) |->
                                       Pair(left.rows[i], right.rows[k])]]))]

\* DataFrame.join(right, on=key, how='outer'): the key is coalesced, a right
\* column whose name the left table has gets the suffix _right, and a name that
\* then occurs twice is polars' DuplicateError
RightName(left, c) == IF c \in left.columns THEN c \o "_right" ELSE c

OuterJoin(left, right, key) ==
    LET rcols == right.columns \ {key}
        names == {RightName(left, c) : c \in rcols}
        Renamed(r) == [n \in names |-> r[CHOOSE c \in rcols : RightName(left, c) = n]]
        NullsFor(cols) == [c \in cols |-> Null]
        Matches(l) == SelectSeq(right.rows, LAMBDA r : r[key] = l[key])
        LeftPart(l) ==
            IF Matches(l) = <<>> THEN <<l @@ NullsFor(names)>>
            ELSE [k \in 1..Len(Matches(l)) |-> l @@ Renamed(Matches(l)[k])]
        Unmatched ==
            SelectSeq(right.rows,
                      LAMBDA r : \A i \in 1..Len(left.rows) : left.rows[i][key] # r[key])
        RightPart ==
            [k \in 1..Len(Unmatched) |->
                [c \in {key} |-> Unmatched[k][key]]
                  @@ Renamed(Unmatched[k]) @@ NullsFor(left.columns \ {key})]
    IN  IF names \cap left.columns # {}
        THEN Raise("DuplicateError", "column with that name already exists")
        ELSE [exc |-> "ok", msg |-> "",
              val |-> Table(left.columns \cup names,
                            Flatten([i \in 1..Len(left.rows) |-> LeftPart(left.rows[i])])
                              \o RightPart)]

\* ---------------------------------------------------------- configuration
\* validate_customer.py default_validation
default_validation ==
    << [name |-> "CEP", external |-> TRUE, webservice |-> "opencep"],
       [name |-> "CNPJ", external |-> TRUE, webservice |-> "brasilapi"],
       [name |-> "CPF", external |-> FALSE, webservice |-> NoneStr],
       [name |-> "Phone", external |-> FALSE, webservice |-> NoneStr],
       [name |-> "Email", external |-> FALSE, webservice |-> NoneStr] >>

\* the entries field lists are built from (webservice = NoneStr: key absent)
CepOpencep == [name |-> "CEP", external |-> TRUE, webservice |-> "opencep"]
CepBrasilAberto == [name |-> "CEP", external |-> TRUE, webservice |-> "brasil_aberto"]
CnpjBrasilapi == [name |-> "CNPJ", external |-> TRUE, webservice |-> "brasilapi"]
LowerCnpjBrasilapi == [name |-> "cnpj", external |-> TRUE, webservice |-> "brasilapi"]
CpfLocal == [name |-> "CPF", external |-> FALSE, webservice |-> NoneStr]
CpfExternal == [name |-> "CPF", external |-> TRUE, webservice |-> NoneStr]
CnpjOpencep == [name |-> "CNPJ", external |-> TRUE, webservice |-> "opencep"]
Unknown == [name |-> "RG", external |-> FALSE, webservice |-> NoneStr]

FieldSamples ==
    {CepOpencep, CepBrasilAberto, CnpjBrasilapi, LowerCnpjBrasilapi, CpfLocal,
     CpfExternal, CnpjOpencep, Unknown}

\* the field lists: every list of up to MaxFields entries, the shipped default
\* and some longer lists
LongerLists ==
    { default_validation,
      <<CpfLocal, CepBrasilAberto>>,
      <<CpfLocal, CepOpencep>>,
      <<CepOpencep, LowerCnpjBrasilapi>>,
      <<CepOpencep, CpfLocal>>,
      <<CpfLocal, CpfLocal>> }

FieldLists == UNION {[1..n -> FieldSamples] : n \in 0..MaxFields} \cup LongerLists

\* bool(name) of a str-or-None name
TruthyStr(x) == x # NoneStr /\ x # ""

CDVE == "CustomerDataValidatorError"

\* CustomerDataValidator._check_fields: available_webservices is carried from
\* one entry to the next, and CnpjAPI has no attribute available_webservices
RECURSIVE CheckFieldsFrom(_, _, _)
CheckFieldsFrom(flist, i, available_webservices) ==
    IF i > Len(flist) THEN Ok(TRUE)
    ELSE LET field == flist[i]
             available ==
                 IF field.name = "CEP" THEN Ok(CepAPI_available_webservices)
                 ELSE IF field.name = "CNPJ"
                 THEN Raise("AttributeError",
                            "type object 'CnpjAPI' has no attribute 'available_webservices'")
                 ELSE Ok(available_webservices)
         IN  IF available.exc # "ok" THEN available
             ELSE IF field.external /\ ~TruthyStr(field.webservice)
             THEN Raise(CDVE, "Web service is not defined.")
             ELSE IF field.external /\ field.webservice \notin available.val
             THEN Raise(CDVE, "Unsupported web service.")
             ELSE CheckFieldsFrom(flist, i + 1, available.val)

CheckFields(flist) == CheckFieldsFrom(flist, 1, {})

\* ------------------------------------------------------------------ state
VARIABLES
    dataset,      \* self.dataset: the rows, in order
    columns,      \* self.dataset.columns
    colnames,     \* the *_colname attributes
    pc,           \* "idle", "loop", "pass", "returned", "raised"
    entry,        \* the public method that was called
    fields,       \* the field list of the call
    fi,           \* index of the current field entry
    pass,         \* the running field pass: name, external, webservice, ...
    ri,           \* index of the next record of the pass
    results,      \* the rows the pass has produced so far
    combined_df,  \* validate_dataset's combined table
    field_df,     \* the table the last completed field pass returned
    exc,          \* the exception that left the call
    outcome,      \* the last per-record check: its inputs and its result
    validated,    \* history: the records validated, in order
    requests,     \* history: the registry requests issued, with their answers
    call,         \* a validator function called on its own: name and argument
    ret,          \* what that call came to
    loop,         \* the throttled loop that is running: which, item, length
    now,          \* the clock (time.time()), in tenths of a second
    start_time,   \* the loop's start_time
    ticks         \* history: the clock readings of the loop, item by item

\* the state of the customer data validator, of the functions called on their
\* own and of the throttled loop
validator_vars == <<dataset, columns, colnames, pc, entry, fields, fi, pass, ri, results,
                    combined_df, field_df, exc, outcome, validated, requests>>
call_vars == <<call, ret>>
throttle_vars == <<loop, now, start_time, ticks>>

vars == <<validator_vars, call_vars, throttle_vars>>

NoExc == [type |-> "none", cause |-> "none", stage |-> "none", msg |-> ""]
NoPass == [name |-> "none", external |-> FALSE, webservice |-> NoneStr,
           ecol |-> 0, tables |-> <<>>]
NoOutcome == [field |-> "none"]
NoFieldDf == [name |-> "none", table |-> EmptyTable]
NoCall == [fn |-> "none"]
NoLoop == [name |-> "none", item |-> 0, items |-> 0]

KnownFields == {"cep", "cpf", "cnpj", "phone", "email"}

\* CustomerDataValidator._check_dataset
CheckDataset ==
    IF Len(dataset) = 0 THEN Raise(CDVE, "The dataset is empty.")
    ELSE IF ~TruthyStr(colnames.customer_id)
    THEN Raise(CDVE, "Customer id column name is not defined.")
    ELSE IF colnames.customer_id \notin columns
    THEN Raise(CDVE, "The dataset does not contain the customer id column.")
    ELSE Ok(TRUE)

\* CustomerDataValidator._check_column_existence
CheckColumnExistence(required) ==
    IF required \ columns # {}
    THEN Raise(CDVE, "The dataset does not contain the required column(s).")
    ELSE Ok(TRUE)

\* _check_address_validate, _check_cnpj_validate, _check_cpf_validate,
\* _check_phone_validate, _check_email_validate
CheckFieldColumns(name) ==
    LET Undefined(what) == Raise(CDVE, what \o " column name is not defined.")
        id == colnames.customer_id
    IN  CASE name = "cep" ->
                 IF ~TruthyStr(colnames.cep) THEN Undefined("CEP")
                 ELSE IF ~TruthyStr(colnames.street) THEN Undefined("Street")
                 ELSE IF ~TruthyStr(colnames.city) THEN Undefined("City")
                 ELSE IF ~TruthyStr(colnames.state) THEN Undefined("State")
                 ELSE CheckColumnExistence({id, colnames.cep, colnames.street,
                                            colnames.city, colnames.state})
          [] name = "cnpj" ->
                 IF ~TruthyStr(colnames.cnpj) THEN Undefined("CNPJ")
                 ELSE CheckColumnExistence({id, colnames.cnpj})
          [] name = "cpf" ->
                 IF ~TruthyStr(colnames.cpf) THEN Undefined("CPF")
                 ELSE CheckColumnExistence({id, colnames.cpf})
          [] name = "phone" ->
                 IF ~TruthyStr(colnames.phone) THEN Undefined("Phone")
                 ELSE CheckColumnExistence({id, colnames.phone})
          [] name = "email" ->
                 IF colnames.email = <<>> THEN Undefined("Email")
                 ELSE CheckColumnExistence(
                          {colnames.email[k] : k \in 1..Len(colnames.email)} \cup {id})

\* the checks a field pass makes before it touches a record
CheckPass(name) ==
    IF CheckDataset.exc # "ok" THEN CheckDataset ELSE CheckFieldColumns(name)

\* dataset.select([customer_id_colname])
SelectIds ==
    Table({colnames.customer_id},
          [i \in 1..Len(dataset) |->
              [c \in {colnames.customer_id} |-> dataset[i][colnames.customer_id]]])

Init ==
    /\ dataset \in Datasets
    /\ \E k \in Constructions : columns = k.columns /\ colnames = k.colnames
    /\ pc = "idle"
    /\ entry = "none"
    /\ fields = <<>>
    /\ fi = 0
    /\ pass = NoPass
    /\ ri = 0
    /\ results = <<>>
    /\ combined_df = EmptyTable
    /\ field_df = NoFieldDf
    /\ exc = NoExc
    /\ outcome = NoOutcome
    /\ validated = <<>>
    /\ requests = <<>>
    /\ call = NoCall
    /\ ret = NoCall
    /\ loop = NoLoop
    /\ now = 0
    /\ start_time = 0
    /\ ticks = <<>>

\* an exception leaves the call
Raised(type, cause, stage, msg) ==
    /\ pc' = "raised"
    /\ exc' = [type |-> type, cause |-> cause, stage |-> stage, msg |-> msg]

\* the start of a field pass (validate_address_from_cep, validate_cnpjs,
\* validate_cpfs, validate_phones, validate_emails): its checks, then the loop
StartPass(name, external, webservice, ecol, tables) ==
    LET chk == CheckPass(name)
    IN  IF name = "email" /\ ecol > Len(colnames.email)
        THEN \* validate_emails: pl.concat of an empty list
             /\ Raised("ValueError", "ValueError", "concat", "cannot concat empty list")
             /\ UNCHANGED <<pass, ri, results>>
        ELSE IF chk.exc # "ok"
        THEN /\ Raised(chk.exc, chk.exc,
                        IF CheckDataset.exc # "ok" THEN "dataset" ELSE "columns", chk.msg)
             /\ UNCHANGED <<pass, ri, results>>
        ELSE /\ pc' = "pass"
             /\ pass' = [name |-> name, external |-> external, webservice |-> webservice,
                         ecol |-> ecol, tables |-> tables]
             /\ ri' = 1
             /\ results' = <<>>
             /\ exc' = exc

\* validate_dataset(fields), up to the field loop
ValidateDataset(flist) ==
    /\ pc = "idle"
    /\ entry' = "validate_dataset"
    /\ fields' = flist
    /\ IF colnames.customer_id \notin columns
       THEN /\ Raised("ColumnNotFoundError", "ColumnNotFoundError", "select", "id")
            /\ UNCHANGED <<fi, combined_df>>
       ELSE /\ combined_df' = SelectIds
            /\ IF CheckFields(flist).exc # "ok"
               THEN /\ Raised(CheckFields(flist).exc, CheckFields(flist).exc,
                              "check_fields", CheckFields(flist).msg)
                    /\ UNCHANGED fi
               ELSE /\ pc' = "loop"
                    /\ fi' = 1
                    /\ exc' = exc
    /\ UNCHANGED <<dataset, columns, colnames, pass, ri, results, field_df, outcome,
                   validated, requests>>

\* validate_dataset: an entry whose lower-cased name is no known field
SkipField ==
    /\ pc = "loop"
    /\ fi <= Len(fields)
    /\ Lower(fields[fi].name) \notin KnownFields
    /\ fi' = fi + 1
    /\ UNCHANGED <<dataset, columns, colnames, pc, entry, fields, pass, ri, results,
                   combined_df, field_df, exc, outcome, validated, requests>>

\* validate_dataset: the next entry's field pass begins
BeginPass ==
    /\ pc = "loop"
    /\ fi <= Len(fields)
    /\ Lower(fields[fi].name) \in KnownFields
    /\ StartPass(Lower(fields[fi].name), fields[fi].external, fields[fi].webservice,
                 1, <<>>)
    /\ UNCHANGED <<dataset, columns, colnames, entry, fields, fi, combined_df, field_df,
                   outcome, validated, requests>>

\* a field pass called on its own
ValidateField(name, external, webservice) ==
    /\ pc = "idle"
    /\ entry' = "validate_field"
    /\ fields' = <<[name |-> name, external |-> external, webservice |-> webservice]>>
    /\ fi' = 1
    /\ StartPass(name, external, webservice, 1, <<>>)
    /\ UNCHANGED <<dataset, columns, colnames, combined_df, field_df, outcome,
                   validated, requests>>

\* validate_dataset: the loop is over, the combined table is returned
Return ==
    /\ pc = "loop"
    /\ fi > Len(fields)
    /\ pc' = "returned"
    /\ UNCHANGED <<dataset, columns, colnames, entry, fields, fi, pass, ri, results,
                   combined_df, field_df, exc, outcome, validated, requests>>

\* ------------------------------------------------------- per-record checks
\* the row a pass produces for a record: id, raw value, validation, reason
ResultRow(id, name, prefix, raw, valid, reason) ==
    (colnames.customer_id :> id) @@ (name :> raw)
      @@ ((prefix \o "_validation") :> valid)
      @@ ((prefix \o "_validation_reason") :> reason)

\* _create_cep_validation_dataset: the result dict is built from address.cep
\* before the address is validated (validation replaces address.cep)
CepResultRow(id, cep, valid, reason) == ResultRow(id, "cep", "cep", cep, valid, reason)

AddressOf(row) ==
    [cep |-> row[colnames.cep], street |-> row[colnames.street],
     city |-> row[colnames.city], state |-> row[colnames.state]]

\* what one iteration of a pass's loop does with a record, given the answer a
\* registry request would get.  exc: what escapes the loop body; row: the
\* result row; requested/code: the request issued, if any.
Step(type, msg, row, valid, reason, requested, code) ==
    [exc |-> type, msg |-> msg, row |-> row, valid |-> valid, reason |-> reason,
     requested |-> requested, code |-> code]
Escape(type, msg, requested, code) == Step(type, msg, <<>>, FALSE, "", requested, code)

\* _create_cep_validation_dataset, loop body: init is what CepAPI(webservice)
\* comes to, api what validate_address comes to, local what validate_cep says
CepRow(external, id, address, init, api, local) ==
    IF external
    THEN IF init.exc # "ok" THEN Escape(init.exc, init.msg, FALSE, NoneVal)
         ELSE IF api.exc # "ok" THEN Escape(api.exc, api.msg, api.requested, api.code)
         ELSE Step("ok", "", CepResultRow(id, address.cep, api.val.valid, api.val.reason),
                   api.val.valid, api.val.reason, api.requested, api.code)
    ELSE Step("ok", "",
              CepResultRow(id, address.cep, local,
                           IF local THEN "Valid CEP." ELSE "Invalid CEP format."),
              local, IF local THEN "Valid CEP." ELSE "Invalid CEP format.",
              FALSE, NoneVal)

CepRecord(p, row, answer) ==
    CepRow(p.external, row[colnames.customer_id], AddressOf(row),
           CepApiInit(p.webservice),
           CepValidateAddress(p.webservice, AddressOf(row), answer),
           ValidateCepLocal(row[colnames.cep]).valid)

\* _create_cnpj_validation_dataset, loop body: CNPJValidator(raw) is built
\* outside any try; in local mode `result` is the bool that validate() returns,
\* and result['valid'] is a TypeError
CnpjRow(external, id, raw, cnpj_validator, init, api, local) ==
    IF cnpj_validator.exc # "ok"
    THEN Escape(cnpj_validator.exc, cnpj_validator.msg, FALSE, NoneVal)
    ELSE IF external
    THEN IF init.exc # "ok" THEN Escape(init.exc, init.msg, FALSE, NoneVal)
         ELSE Step("ok", "",
                   ResultRow(id, "cnpj", "cnpj", raw, api.val.valid, api.val.reason),
                   api.val.valid, api.val.reason, api.requested, api.code)
    ELSE IF local.exc # "ok" THEN Escape(local.exc, local.msg, FALSE, NoneVal)
    ELSE Escape("TypeError", "'bool' object is not subscriptable", FALSE, NoneVal)

CnpjRecord(p, row, answer) ==
    CnpjRow(p.external, row[colnames.customer_id], row[colnames.cnpj],
            SanitizeCnpj(row[colnames.cnpj]), CnpjApiInit(p.webservice),
            CnpjValidateCnpj(p.webservice, SanitizeCnpj(row[colnames.cnpj]).val, answer),
            CnpjValidate(SanitizeCnpj(row[colnames.cnpj]).val))

\* _create_cpf_validation_dataset with CPFValidator.validate_cpfs
CpfRow(id, raw, r) ==
    Step("ok", "", ResultRow(id, "cpf", "cpf", raw, r.valid, r.reason),
         r.valid, r.reason, FALSE, NoneVal)

CpfRecord(p, row, answer) ==
    CpfRow(row[colnames.customer_id], row[colnames.cpf], ValidateCpf(row[colnames.cpf]))

\* _create_phone_validation_dataset with PhoneValidator.validate_phone_numbers
PhoneRow(id, raw, r) ==
    Step("ok", "",
         ResultRow(id, "phone", "phone", raw, r.valid, r.reason)
           @@ ("possible_mobile" :> r.possible_mobile),
         r.valid, r.reason, FALSE, NoneVal)

PhoneRecord(p, row, answer) ==
    PhoneRow(row[colnames.customer_id], row[colnames.phone],
             ValidatePhone(row[colnames.phone]))

\* _create_email_validation_dataset with EmailValidator.validate_emails
EmailRow(id, email_colname, raw, r) ==
    Step("ok", "",
         ResultRow(id, "email", email_colname, raw, r.valid, r.reason)
           @@ ((email_colname \o "_deliverability") :> r.deliverability),
         r.valid, r.reason, FALSE, NoneVal)

EmailRecord(p, row, answer) ==
    EmailRow(row[colnames.customer_id], colnames.email[p.ecol],
             row[colnames.email[p.ecol]], ValidateEmail(row[colnames.email[p.ecol]]))

RecordStep(p, row, answer) ==
    CASE p.name = "cep" -> CepRecord(p, row, answer)
      [] p.name = "cnpj" -> CnpjRecord(p, row, answer)
      [] p.name = "cpf" -> CpfRecord(p, row, answer)
      [] p.name = "phone" -> PhoneRecord(p, row, answer)
      [] p.name = "email" -> EmailRecord(p, row, answer)

\* the raw value of the pass's field in a record
RawOf(p, row) ==
    CASE p.name = "cep" -> row[colnames.cep]
      [] p.name = "cnpj" -> row[colnames.cnpj]
      [] p.name = "cpf" -> row[colnames.cpf]
      [] p.name = "phone" -> row[colnames.phone]
      [] p.name = "email" -> row[colnames.email[p.ecol]]

\* the answers the registry may give to the request a step issues, if any
\* (probe: the step under some answer; whether and what it requests does not
\* depend on the answer)
AnswersTo(name, probe) ==
    IF ~probe.requested THEN {TransportFailure}
    ELSE IF name = "cep" THEN CepAnswers(probe.code)
    ELSE CnpjAnswers(probe.code)

OutcomeOf(p, idx, raw, answer, step) ==
    [field |-> p.name, external |-> p.external, webservice |-> p.webservice,
     idx |-> idx, raw |-> raw, requested |-> step.requested,
     answer |-> answer, exc |-> step.exc, valid |-> step.valid, reason |-> step.reason]

Request(p, idx, name, answer, step) ==
    [pass |-> p, field |-> name, idx |-> idx, code |-> step.code, answer |-> answer]

\* a list that takes a new result at its head
Prepend(rows, row) == <<row>> \o rows

\* results.append(result)
Collect(rows, row) == Append(rows, row)

\* a loop that takes every other record
EveryOtherRecord(i) == i + 2

\* the for loop of a pass goes on with the next record of the dataset
NextRecord(i) == i + 1

\* what the loop iteration leaves behind.  An exception inside the loop is
\* wrapped by the pass's `except Exception` in CustomerDataValidatorError.
RecordDone(answer, step) ==
    /\ outcome' = OutcomeOf(pass, ri, RawOf(pass, dataset[ri]), answer, step)
    /\ requests' = IF step.requested
                   THEN Append(requests, Request(fi, ri, pass.name, answer, step))
                   ELSE requests
    /\ IF step.exc # "ok"
       THEN /\ Raised(CDVE, step.exc, "record", step.msg)
            /\ UNCHANGED <<ri, results, validated>>
       ELSE /\ results' = Collect(results, step.row)
            /\ validated' = Append(validated, [pass |-> fi, field |-> pass.name,
                                               idx |-> ri])
            /\ ri' = NextRecord(ri)
            /\ UNCHANGED <<pc, exc>>

RecordWith(probe) ==
    /\ probe.requested => Len(requests) < MaxRequests
    /\ \E answer \in AnswersTo(pass.name, probe) :
           RecordDone(answer, RecordStep(pass, dataset[ri], answer))

\* one iteration of the running pass's loop
ValidateRecord ==
    /\ pc = "pass"
    /\ ri <= Len(dataset)
    /\ RecordWith(RecordStep(pass, dataset[ri], TransportFailure))
    /\ UNCHANGED <<dataset, columns, colnames, entry, fields, fi, pass, combined_df,
                   field_df>>

\* pl.concat(tables, how='horizontal'): a column name that occurs in two of
\* the tables is polars' DuplicateError
RECURSIVE ZipRows(_, _)
ZipRows(tables, k) ==
    IF tables = <<>> THEN <<>> ELSE Head(tables).rows[k] @@ ZipRows(Tail(tables), k)

HConcat(tables) ==
    IF \E i, j \in 1..Len(tables) : i < j /\ tables[i].columns \cap tables[j].columns # {}
    THEN Raise("DuplicateError", "column with that name already exists")
    ELSE [exc |-> "ok", msg |-> "",
          val |-> Table(UNION {tables[i].columns : i \in 1..Len(tables)},
                        [k \in 1..Len(tables[1].rows) |-> ZipRows(tables, k)])]

\* the end of a field pass: pl.DataFrame(results) is returned; validate_emails
\* runs one such pass per e-mail column and concatenates; validate_dataset
\* joins the table to the combined one and goes on with the next entry
EndPass ==
    /\ pc = "pass"
    /\ ri > Len(dataset)
    /\ LET table == Table(DOMAIN results[1], results)
           tables == Append(pass.tables, table)
           df == IF pass.name = "email" THEN HConcat(tables)
                 ELSE [exc |-> "ok", msg |-> "", val |-> table]
           joined == OuterJoin(combined_df, df.val, colnames.customer_id)
       IN  IF pass.name = "email" /\ pass.ecol < Len(colnames.email)
           THEN /\ StartPass("email", pass.external, pass.webservice, pass.ecol + 1, tables)
                /\ UNCHANGED <<fi, combined_df, field_df>>
           ELSE IF df.exc # "ok"
           THEN /\ Raised(df.exc, df.exc, "concat", df.msg)
                /\ UNCHANGED <<pass, ri, results, fi, combined_df, field_df>>
           ELSE /\ field_df' = [name |-> pass.name, table |-> df.val]
                /\ UNCHANGED <<pass, ri, results>>
                /\ IF entry # "validate_dataset"
                   THEN /\ pc' = "returned"
                        /\ UNCHANGED <<fi, combined_df, exc>>
                   ELSE IF joined.exc # "ok"
                   THEN /\ Raised(joined.exc, joined.exc, "join", joined.msg)
                        /\ UNCHANGED <<fi, combined_df>>
                   ELSE /\ combined_df' = joined.val
                        /\ fi' = fi + 1
                        /\ pc' = "loop"
                        /\ exc' = exc
    /\ UNCHANGED <<dataset, columns, colnames, entry, fields, outcome, validated,
                   requests>>

\* ------------------------------------------------ the clients called directly
ApiPass(name, webservice) ==
    [name |-> name, external |-> TRUE, webservice |-> webservice, ecol |-> 0,
     tables |-> <<>>]

RowAddress(row) ==
    [cep |-> row.cep, street |-> row.street, city |-> row.city, state |-> row.state]

ApiStep(api) ==
    Step(api.exc, api.msg, <<>>, api.val.valid, api.val.reason, api.requested, api.code)

\* CnpjAPI(webservice=ws).validate_cnpj(cnpj_str) / CepAPI(webservice=ws)
\* .validate_address(address), on the value of a record
ApiCall(name, webservice, row, answer) ==
    IF name = "cnpj"
    THEN ApiStep(CnpjValidateCnpj(webservice, row.cnpj, answer))
    ELSE ApiStep(CepValidateAddress(webservice, RowAddress(row), answer))

ApiDone(p, raw, answer, step) ==
    /\ outcome' = OutcomeOf(p, 0, raw, answer, step)
    /\ requests' = IF step.requested
                   THEN Append(requests, Request(0, 0, p.name, answer, step))
                   ELSE requests
    /\ IF step.exc # "ok"
       THEN Raised(step.exc, step.exc, "record", step.msg)
       ELSE pc' = "returned" /\ exc' = exc

ApiWith(name, webservice, i, init, probe) ==
    IF init.exc # "ok"
    THEN /\ Raised(init.exc, init.exc, "init", init.msg)
         /\ UNCHANGED <<outcome, requests>>
    ELSE \E answer \in AnswersTo(name, probe) :
             ApiDone(ApiPass(name, webservice),
                     IF name = "cnpj" THEN dataset[i].cnpj ELSE dataset[i].cep,
                     answer, ApiCall(name, webservice, dataset[i], answer))

ApiValidate(name, webservice, i) ==
    /\ pc = "idle"
    /\ i \in 1..Len(dataset)
    /\ entry' = IF name = "cnpj" THEN "validate_cnpj" ELSE "validate_address"
    /\ ApiWith(name, webservice, i,
               IF name = "cnpj" THEN CnpjApiInit(webservice) ELSE CepApiInit(webservice),
               ApiCall(name, webservice, dataset[i], TransportFailure))
    /\ UNCHANGED <<dataset, columns, colnames, fields, fi, pass, ri, results,
                   combined_df, field_df, validated>>

ApiValidateCnpj(webservice, i) == ApiValidate("cnpj", webservice, i)
ApiValidateAddress(webservice, i) == ApiValidate("cep", webservice, i)

\* ------------------------------------------------------------ specification
\* the field passes called on their own, with the arguments they are given
DirectCalls ==
    {[name |-> "cep", external |-> TRUE, webservice |-> w] :
         w \in {"opencep", "viacep", "brasil_aberto"}}
      \cup {[name |-> "cnpj", external |-> TRUE, webservice |-> w] :
                w \in {"brasilapi", "brasilaberto", "opencep"}}
      \cup {[name |-> n, external |-> FALSE, webservice |-> NoneStr] : n \in KnownFields}

Next ==
    \/ (\E flist \in FieldLists : ValidateDataset(flist))
          /\ UNCHANGED <<call_vars, throttle_vars>>
    \/ (\E c \in DirectCalls : ValidateField(c.name, c.external, c.webservice))
          /\ UNCHANGED <<call_vars, throttle_vars>>
    \/ SkipField /\ UNCHANGED <<call_vars, throttle_vars>>
    \/ BeginPass /\ UNCHANGED <<call_vars, throttle_vars>>
    \/ ValidateRecord /\ UNCHANGED <<call_vars, throttle_vars>>
    \/ EndPass /\ UNCHANGED <<call_vars, throttle_vars>>
    \/ Return /\ UNCHANGED <<call_vars, throttle_vars>>
    \/ (\E w \in DOMAIN CNPJ_WEBSERVICES \cup {"opencep"}, i \in 1..MaxRows : ApiValidateCnpj(w, i))
          /\ UNCHANGED <<call_vars, throttle_vars>>
    \/ (\E w \in DOMAIN CEP_WEBSERVICES \cup {"brasil_aberto"}, i \in 1..MaxRows :
           ApiValidateAddress(w, i))
          /\ UNCHANGED <<call_vars, throttle_vars>>

Spec == Init /\ [][Next]_vars

\* ------------------------------------------------------- the throttled loop
\* The loops of _create_cep_validation_dataset and
\* _create_cnpj_validation_dataset read the clock after every item and sleep
\* when time_step has gone by.  Sleeping changes no result, so the timing of
\* the loop is followed apart from what the items come to.  Times are in
\* tenths of a second: time_step = 120 s, time_delay = 0.5 s and 0.3 s.
Throttle ==
    [cep |-> [time_step |-> 1200, time_delay |-> 5],
     cnpj |-> [time_step |-> 1200, time_delay |-> 3]]

\* how long an item may take, and by how much time.sleep may oversleep
Durations == {0, 400, 1200}
Oversleep == {0, 1}

\* a test that lets the pause wait until the window is exceeded
WindowExceeded(elapsed_time, time_step) == elapsed_time > time_step

\* if elapsed_time >= time_step
WindowReached(elapsed_time, time_step) == elapsed_time >= time_step

\* start_time = time.time(), before the loop
StartLoop(name, n) ==
    /\ loop = NoLoop
    /\ loop' = [name |-> name, item |-> 1, items |-> n]
    /\ start_time' = now
    /\ ticks' = <<>>
    /\ now' = now

\* the clock after an item that took d: the comparison, the sleep and the reset
AfterItem(at, paused, resumed) ==
    /\ now' = IF paused THEN resumed ELSE at
    /\ start_time' = IF paused THEN resumed ELSE start_time
    /\ ticks' = Append(ticks, [item |-> loop.item, since |-> start_time, at |-> at,
                               paused |-> paused,
                               resumed |-> IF paused THEN resumed ELSE at])
    /\ loop' = [loop EXCEPT !.item = loop.item + 1]

\* one iteration of the loop: the item, elapsed_time = time.time() -
\* start_time, and if the window is reached time.sleep(time_delay) and
\* start_time = time.time()
LoopItem(d, late) ==
    /\ loop.name # "none"
    /\ loop.item <= loop.items
    /\ late # 0 => WindowReached(now + d - start_time, Throttle[loop.name].time_step)
    /\ AfterItem(now + d,
                 WindowReached(now + d - start_time, Throttle[loop.name].time_step),
                 now + d + Throttle[loop.name].time_delay + late)

ThrottleInit == Init /\ dataset = <<>> /\ columns = AllColumns

ThrottleNext ==
    \/ (\E name \in DOMAIN Throttle, n \in 1..MaxItems : StartLoop(name, n))
          /\ UNCHANGED <<validator_vars, call_vars>>
    \/ (\E d \in Durations, late \in Oversleep : LoopItem(d, late))
          /\ UNCHANGED <<validator_vars, call_vars>>

SpecThrottle == ThrottleInit /\ [][ThrottleNext]_vars

\* ------------------------------------------------------ address similarity
\* difflib.SequenceMatcher(None, a, b): no junk, and no automatic junk below
\* 200 characters.  RunAt: the length of the common run that starts at a[i]
\* and b[j] and stays within a[..ahi] and b[..bhi].
RECURSIVE RunAt(_, _, _, _, _, _)
RunAt(a, b, i, j, ahi, bhi) ==
    IF i > ahi \/ j > bhi \/ a[i] # b[j] THEN 0
    ELSE 1 + RunAt(a, b, i + 1, j + 1, ahi, bhi)

\* find_longest_match: the longest common block within a[alo..ahi] and
\* b[blo..bhi]; of the longest ones that which starts earliest in a, and of
\* those that which starts earliest in b
BlockAt(a, b, alo, ahi, blo, bhi, size) ==
    LET i == CHOOSE x \in alo..ahi :
                 /\ \E y \in blo..bhi : RunAt(a, b, x, y, ahi, bhi) = size
                 /\ \A z \in alo..(x - 1) :
                        \A y \in blo..bhi : RunAt(a, b, z, y, ahi, bhi) # size
    IN  [i |-> i, size |-> size,
         j |-> CHOOSE y \in blo..bhi :
                   /\ RunAt(a, b, i, y, ahi, bhi) = size
                   /\ \A z \in blo..(y - 1) : RunAt(a, b, i, z, ahi, bhi) # size]

LongestSize(a, b, alo, ahi, blo, bhi) ==
    LET sizes == {RunAt(a, b, x, y, ahi, bhi) : x \in alo..ahi, y \in blo..bhi}
    IN  CHOOSE k \in sizes : \A m \in sizes : m <= k

\* get_matching_blocks: the longest block, then the same to its left and to
\* its right; Matched is the number of characters in all the blocks
RECURSIVE Matched(_, _, _, _, _, _)
MatchedAround(a, b, alo, ahi, blo, bhi, m) ==
    m.size + Matched(a, b, alo, m.i - 1, blo, m.j - 1)
           + Matched(a, b, m.i + m.size, ahi, m.j + m.size, bhi)

MatchedWith(a, b, alo, ahi, blo, bhi, size) ==
    IF size = 0 THEN 0
    ELSE MatchedAround(a, b, alo, ahi, blo, bhi,
                       BlockAt(a, b, alo, ahi, blo, bhi, size))

Matched(a, b, alo, ahi, blo, bhi) ==
    IF alo > ahi \/ blo > bhi THEN 0
    ELSE MatchedWith(a, b, alo, ahi, blo, bhi,
                     LongestSize(a, b, alo, ahi, blo, bhi))

\* a fraction num / den
Frac(num, den) == [num |-> num, den |-> den]
FracAdd(x, y) == Frac(x.num * y.den + y.num * x.den, x.den * y.den)

\* a ratio that counts the matched characters once
MatchedOverTotal(a, b) == Frac(Matched(a, b, 1, Len(a), 1, Len(b)), Len(a) + Len(b))

\* SequenceMatcher.ratio(): 2 * matches / (len(a) + len(b))
SequenceMatcherRatio(a, b) ==
    IF Len(a) + Len(b) = 0 THEN Frac(1, 1)
    ELSE Frac(2 * Matched(a, b, 1, Len(a), 1, Len(b)), Len(a) + Len(b))

\* round(x, 3) of a fraction, in thousandths; a tie goes to the even one
Round3With(floor, twice, den) ==
    IF twice < den THEN floor
    ELSE IF twice > den THEN floor + 1
    ELSE IF floor % 2 = 0 THEN floor ELSE floor + 1

Round3(x) ==
    Round3With((1000 * x.num) \div x.den, 2 * ((1000 * x.num) % x.den), x.den)

\* the attributes _compute_similarity goes through
SimilarityAttributes ==
    <<"cep", "street", "complement", "district", "city", "state",
      "ibge", "gia", "ddd", "siafi">>

\* the ratios list: one ratio for each attribute that both addresses hold
\* (neither None nor empty), from the k-th attribute on
RECURSIVE Ratios(_, _, _)
Ratios(addr1, addr2, k) ==
    IF k > Len(SimilarityAttributes) THEN <<>>
    ELSE (IF Truthy(addr1[SimilarityAttributes[k]])
               /\ Truthy(addr2[SimilarityAttributes[k]])
          THEN <<SequenceMatcherRatio(addr1[SimilarityAttributes[k]],
                                      addr2[SimilarityAttributes[k]])>>
          ELSE <<>>) \o Ratios(addr1, addr2, k + 1)

RECURSIVE FracSum(_)
FracSum(ratios) ==
    IF ratios = <<>> THEN Frac(0, 1) ELSE FracAdd(Head(ratios), FracSum(Tail(ratios)))

\* sum(ratios) / len(ratios), rounded
MeanOf(ratios, total) == Round3(Frac(total.num, total.den * Len(ratios)))

\* CepAPI._compute_similarity, in thousandths (1000 is the score 1.0)
SimilarityOf(ratios) == IF ratios = <<>> THEN 0 ELSE MeanOf(ratios, FracSum(ratios))
ComputeSimilarity(addr1, addr2) == SimilarityOf(Ratios(addr1, addr2, 1))

\* Address.to_dict: the address under the registry's (Portuguese) keys
ToDict(address) ==
    [cep |-> address.cep, logradouro |-> address.street,
     complemento |-> address.complement, bairro |-> address.district,
     localidade |-> address.city, uf |-> address.state, ibge |-> address.ibge,
     gia |-> address.gia, ddd |-> address.ddd, siafi |-> address.siafi]

\* an insertion that puts x before the elements of equal ratio
InsertBeforeEqual(sorted, x) ==
    LET before == SelectSeq(sorted, LAMBDA e : e.similarity_ratio > x.similarity_ratio)
        after == SelectSeq(sorted, LAMBDA e : e.similarity_ratio <= x.similarity_ratio)
    IN  before \o <<x>> \o after

\* sorted(..., key=similarity_ratio, reverse=True) is stable: x, which came
\* later in the list, goes after the elements of equal ratio
InsertSorted(sorted, x) ==
    LET before == SelectSeq(sorted, LAMBDA e : e.similarity_ratio >= x.similarity_ratio)
        after == SelectSeq(sorted, LAMBDA e : e.similarity_ratio < x.similarity_ratio)
    IN  before \o <<x>> \o after

RECURSIVE SortedByRatio(_, _)
SortedByRatio(similarities, k) ==
    IF k = 0 THEN <<>>
    ELSE InsertSorted(SortedByRatio(similarities, k - 1), similarities[k])

\* the loop of filter_addresses_by_similarity: the candidates of ratio > 0
Scored(address, similarity_ratio) ==
    IF similarity_ratio > 0
    THEN <<[similarity_ratio |-> similarity_ratio, address |-> ToDict(address)]>>
    ELSE <<>>

RECURSIVE Similarities(_, _)
Similarities(target_address, search_addresses) ==
    IF search_addresses = <<>> THEN <<>>
    ELSE Scored(Head(search_addresses),
                ComputeSimilarity(target_address, Head(search_addresses)))
           \o Similarities(target_address, Tail(search_addresses))

SortedSimilarities(similarities) == SortedByRatio(similarities, Len(similarities))

\* CepAPI.filter_addresses_by_similarity
FilterAddressesBySimilarity(target_address, search_addresses) ==
    SortedSimilarities(Similarities(target_address, search_addresses))

\* --------------------------------------- the validators' functions, one call
\* Each function of the validators is called once on an input; call holds the
\* function and its argument, ret what it returned or raised.
CepDigits == <<"0", "1", "0", "0", "0", "0", "0", "0">>
CpfDigits == <<"1", "2", "3", "4", "5", "6", "7", "8", "9", "0", "9">>
CnpjDigits == <<"1", "1", "2", "2", "2", "3", "3", "3", "0", "0", "0", "1", "8", "1">>

\* the punctuation tried inside an identifier
Punctuation == {".", "-", "/", " ", ","}

Insert(s, i, ch) == SubSeq(s, 1, i) \o <<ch>> \o SubSeq(s, i + 1, Len(s))

\* raw values built on an identifier's digits: null, empty, the digits, one
\* digit less, one more, a letter, the usual formatting, and one punctuation
\* character at any position
RawInputs(digits, formatted) ==
    {NoneVal, <<>>, digits, formatted, Prefix(digits, Len(digits) - 1),
     digits \o <<"0">>, [digits EXCEPT ![1] = "a"]}
      \cup {Insert(digits, i, ch) : i \in 0..Len(digits), ch \in Punctuation}

Statuses == {200, 201, 204, 301, 404, 429, 500}

FetchAnswers ==
    {TransportFailure, HttpText(200), HttpText(500)}
      \cup {HttpAnswer(st, [cep |-> CepDigits]) : st \in Statuses}
      \cup {HttpAnswer(st, [message |-> "not found"]) : st \in Statuses}

WebserviceNames ==
    DOMAIN CEP_WEBSERVICES \cup DOMAIN CNPJ_WEBSERVICES
      \cup {"brasil_aberto", "ViaCEP", "", NoneStr}

Returns(fn, arg, r) ==
    /\ call = NoCall
    /\ call' = [fn |-> fn, arg |-> arg]
    /\ ret' = r

CallSanitizeCep(raw) == Returns("Address._sanitize_cep", raw, SanitizeCep(raw))
CallSanitizeCpf(raw) == Returns("CPFValidator._sanitize_cpf", raw, SanitizeCpf(raw))
CallSanitizeCnpj(raw) == Returns("CNPJValidator._sanitize_cnpj", raw, SanitizeCnpj(raw))
CallFetchByCep(answer) == Returns("CepAPI._fetch_by_cep", answer, Fetch(answer))
CallFetchCompanyInfo(answer) ==
    Returns("CnpjAPI.fetch_company_info", answer, Fetch(answer))
NewCepApi(webservice) == Returns("CepAPI", webservice, CepApiInit(webservice))
NewCnpjApi(webservice) == Returns("CnpjAPI", webservice, CnpjApiInit(webservice))

\* the sanitizer of a type, called on what its first call returned
SanitizeBy(fn, raw) ==
    CASE fn = "Address._sanitize_cep" -> SanitizeCep(raw)
      [] fn = "CPFValidator._sanitize_cpf" -> SanitizeCpf(raw)
      [] fn = "CNPJValidator._sanitize_cnpj" -> SanitizeCnpj(raw)

SanitizeAgain ==
    /\ call.fn \in {"Address._sanitize_cep", "CPFValidator._sanitize_cpf",
                    "CNPJValidator._sanitize_cnpj"}
    /\ "first" \notin DOMAIN call
    /\ ret.exc = "ok"
    /\ call' = [fn |-> call.fn, arg |-> ret.val, first |-> call.arg]
    /\ ret' = SanitizeBy(call.fn, ret.val)

\* lists of CPF values: every raw value alone, and two lists of two
CpfLists ==
    {<<raw>> : raw \in RawInputs(CpfDigits, CpfFormatted) \cup {CpfShort, CpfBadChecksum}}
      \cup {<<CpfShort, CpfFormatted>>, <<CpfFormatted, CpfBadChecksum>>}

CallValidateCpfs(cpfs) ==
    Returns("CPFValidator.validate_cpfs", cpfs, Ok(ValidateCpfs(cpfs)))

\* Address(): every attribute None
NoAddress ==
    [cep |-> NoneVal, street |-> NoneVal, complement |-> NoneVal,
     district |-> NoneVal, city |-> NoneVal, state |-> NoneVal, ibge |-> NoneVal,
     gia |-> NoneVal, ddd |-> NoneVal, siafi |-> NoneVal]

Sao == <<"S", "a", "o">>
Rua == <<"R", "u", "a">>

\* the two addresses of the test suite (city shortened), and addresses that
\* share with them a city, a state, a postal code, or nothing
Address1 == [NoAddress EXCEPT !.cep = CepDigits, !.city = Sao, !.state = <<"S", "P">>]
Address2 ==
    [NoAddress EXCEPT !.cep = <<"0", "2", "0", "0", "0", "0", "0", "0">>,
                      !.city = Sao, !.state = <<"S", "P">>]

AddressSamples ==
    {NoAddress, Address1, Address2,
     [NoAddress EXCEPT !.city = Sao],
     [NoAddress EXCEPT !.state = <<"M", "G">>],
     [NoAddress EXCEPT !.cep = CepDigits],
     [NoAddress EXCEPT !.street = Rua, !.complement = <<"a", "1">>, !.ddd = <<"1", "1">>],
     [NoAddress EXCEPT !.street = Rua, !.complement = <<"b", "2">>, !.ddd = <<"1", "1">>],
     [NoAddress EXCEPT !.street = <<>>, !.city = <<>>, !.state = <<"S", "P">>,
                       !.ibge = <<"3", "5">>],
     [NoAddress EXCEPT !.district = <<"S", "e">>, !.ibge = <<"3", "3">>,
                       !.gia = <<"1">>, !.siafi = <<"7">>]}

TargetSamples == {Address1, [NoAddress EXCEPT !.city = Sao], NoAddress}

\* candidates of equal score, of lower score and of score 0 for the targets
CandidateSamples ==
    {Address1, Address2, [NoAddress EXCEPT !.city = Sao],
     [NoAddress EXCEPT !.state = <<"M", "G">>], NoAddress}

CandidateLists == UNION {[1..n -> CandidateSamples] : n \in 0..MaxCandidates}

CallComputeSimilarity(addr1, addr2) ==
    Returns("CepAPI._compute_similarity", <<addr1, addr2>>,
            Ok(ComputeSimilarity(addr1, addr2)))

CallFilterAddresses(target_address, search_addresses) ==
    Returns("CepAPI.filter_addresses_by_similarity",
            <<target_address, search_addresses>>,
            Ok(FilterAddressesBySimilarity(target_address, search_addresses)))

CallsInit == Init /\ dataset = <<>> /\ columns = AllColumns

CallsNext ==
    \/ SanitizeAgain /\ UNCHANGED <<validator_vars, throttle_vars>>
    \/ (\E addr1 \in AddressSamples, addr2 \in AddressSamples :
            CallComputeSimilarity(addr1, addr2))
          /\ UNCHANGED <<validator_vars, throttle_vars>>
    \/ (\E target \in TargetSamples, search \in CandidateLists :
            CallFilterAddresses(target, search))
          /\ UNCHANGED <<validator_vars, throttle_vars>>
    \/ (\E cpfs \in CpfLists : CallValidateCpfs(cpfs))
          /\ UNCHANGED <<validator_vars, throttle_vars>>
    \/ (\E raw \in RawInputs(CepDigits, CepDashed) : CallSanitizeCep(raw))
          /\ UNCHANGED <<validator_vars, throttle_vars>>
    \/ (\E raw \in RawInputs(CpfDigits, CpfFormatted) : CallSanitizeCpf(raw))
          /\ UNCHANGED <<validator_vars, throttle_vars>>
    \/ (\E raw \in RawInputs(CnpjDigits, CnpjFormatted) : CallSanitizeCnpj(raw))
          /\ UNCHANGED <<validator_vars, throttle_vars>>
    \/ (\E answer \in FetchAnswers : CallFetchByCep(answer))
          /\ UNCHANGED <<validator_vars, throttle_vars>>
    \/ (\E answer \in FetchAnswers : CallFetchCompanyInfo(answer))
          /\ UNCHANGED <<validator_vars, throttle_vars>>
    \/ (\E webservice \in WebserviceNames : NewCepApi(webservice))
          /\ UNCHANGED <<validator_vars, throttle_vars>>
    \/ (\E webservice \in WebserviceNames : NewCnpjApi(webservice))
          /\ UNCHANGED <<validator_vars, throttle_vars>>

SpecCalls == CallsInit /\ [][CallsNext]_vars

\* ----------------------------------------------------------------- claims
\* the call is validate_dataset or a field pass / a client's per-record check
ByPass == entry \in {"validate_dataset", "validate_field"}
ByClient == entry \in {"validate_cnpj", "validate_address"}

Range(f) == {f[k] : k \in DOMAIN f}

IdsOf(rows) == {rows[k][colnames.customer_id] : k \in 1..Len(rows)}

DistinctIds ==
    \A i, j \in 1..Len(dataset) :
        i # j => dataset[i][colnames.customer_id] # dataset[j][colnames.customer_id]

\* C1: for a dataset with distinct customer ids, the combined table of
\* validate_dataset holds, after the select and after every join, exactly the
\* ids of the dataset, one row for each; so does the table it returns.
C1_MergeCompleteness ==
    (entry = "validate_dataset" /\ DistinctIds) =>
        /\ IdsOf(combined_df.rows) = IdsOf(dataset)
        /\ Len(combined_df.rows) = Len(dataset)

C1_TwoJoinsReturned ==
    /\ entry = "validate_dataset"
    /\ pc = "returned"
    /\ DistinctIds
    /\ Len(dataset) = 2
    /\ {"cep_validation", "cpf_validation"} \subseteq combined_df.columns

\* the dataset column a field pass reads its raw value from
ColumnOf(name, ecol) ==
    CASE name = "cep" -> colnames.cep
      [] name = "cnpj" -> colnames.cnpj
      [] name = "cpf" -> colnames.cpf
      [] name = "phone" -> colnames.phone
      [] name = "email" -> colnames.email[ecol]

\* the result row carries the id and the raw value of the i-th record
Carries(row, name, ecol, i) ==
    /\ row[colnames.customer_id] = dataset[i][colnames.customer_id]
    /\ row[name] = dataset[i][ColumnOf(name, ecol)]

\* C2: a field pass produces its outcomes in input order, the i-th with the
\* customer id and the raw value of the i-th record, and the table of a pass
\* that completes has exactly one row per record.
C2_OneOutcomePerRecordInOrder ==
    /\ pc = "pass" =>
           /\ Len(results) = ri - 1
           /\ \A i \in 1..Len(results) : Carries(results[i], pass.name, pass.ecol, i)
    /\ field_df.name # "none" =>
           /\ Len(field_df.table.rows) = Len(dataset)
           /\ \A i \in 1..Len(dataset) :
                  Carries(field_df.table.rows[i], field_df.name, 1, i)

C2_PassOverTwoRecords ==
    /\ entry = "validate_field"
    /\ pc = "returned"
    /\ field_df.name = "cep"
    /\ Len(dataset) = 2
    /\ dataset[1].cep # dataset[2].cep
    /\ dataset[1].id # dataset[2].id

\* the registry catalog of a field
CatalogOf(name) ==
    IF Lower(name) = "cep" THEN DOMAIN CEP_WEBSERVICES
    ELSE IF Lower(name) = "cnpj" THEN DOMAIN CNPJ_WEBSERVICES
    ELSE {}

NamesUnknownBackend(f) ==
    /\ f.external
    /\ Lower(f.name) \in {"cep", "cnpj"}
    /\ f.webservice # NoneStr
    /\ f.webservice \notin CatalogOf(f.name)

LacksColumn(f) ==
    /\ Lower(f.name) \in KnownFields
    /\ CheckFieldColumns(Lower(f.name)).exc # "ok"

\* C3: when an entry of the field list is external and names a webservice
\* that is no key of the catalog of its field, validate_dataset validates no
\* record, issues no registry request and returns no table (the dataset
\* having every column the list needs).
C3_UnknownBackendRaisesFirst ==
    (entry = "validate_dataset"
       /\ (\E i \in 1..Len(fields) : NamesUnknownBackend(fields[i]))
       /\ \A i \in 1..Len(fields) : ~LacksColumn(fields[i])) =>
        /\ pc # "returned"
        /\ validated = <<>>
        /\ requests = <<>>

Registered(f) == TruthyStr(f.webservice) /\ f.webservice \in CatalogOf(f.name)

Acceptable(flist) == \A i \in 1..Len(flist) : flist[i].external => Registered(flist[i])

Rejected == pc = "raised" /\ exc.stage = "check_fields"

\* C4: _check_fields rejects a field list exactly when some external entry
\* has no webservice, or one that is not registered for the entry's field; it
\* rejects with CustomerDataValidatorError; it accepts default_validation.
C4_CheckFieldsAcceptsRegistered ==
    entry = "validate_dataset" =>
        /\ Rejected <=> ~Acceptable(fields)
        /\ Rejected => exc.type = CDVE
        /\ fields = default_validation => ~Rejected

\* C5: when the column of a configured field is missing from the dataset or
\* its name is undefined, validate_dataset validates no record of any field
\* pass, issues no registry request and returns no table (the field list
\* naming registered webservices only).
C5_MissingColumnRaisesFirst ==
    (entry = "validate_dataset"
       /\ (\E i \in 1..Len(fields) : LacksColumn(fields[i]))
       /\ Acceptable(fields)) =>
        /\ pc # "returned"
        /\ validated = <<>>
        /\ requests = <<>>

Separators(name) ==
    CASE name = "cep" -> {"-", ".", " "}
      [] name = "cnpj" -> {".", "/", "-", ","}
      [] name = "cpf" -> {".", "-", ","}

Stripped(name, raw) == SelectSeq(raw, LAMBDA c : c \notin Separators(name))

\* null, empty, of the wrong length or with a character that is no digit
Malformed(name, raw) ==
    \/ raw = NoneVal
    \/ Len(Stripped(name, raw)) # (CASE name = "cep" -> 8 [] name = "cnpj" -> 14
                                     [] name = "cpf" -> 11)
    \/ ~IsDigit(Stripped(name, raw))

BackendUsable(o) == ~o.external \/ o.webservice \in CatalogOf(o.field)

\* C6: in a CEP, CNPJ or CPF pass, local or external, the check of a record
\* with a malformed identifier does not raise: the record gets valid = false
\* with a reason, and the pass goes on.
C6_MalformedNeverAborts ==
    (ByPass /\ outcome.field \in {"cep", "cnpj", "cpf"}
       /\ Malformed(outcome.field, outcome.raw) /\ BackendUsable(outcome)) =>
        /\ outcome.exc = "ok"
        /\ ~outcome.valid
        /\ outcome.reason # ""

FailedAnswer(answer) == ~answer.transport_ok \/ answer.status # 200

\* C7, as stated: a failed registry request (transport failure or a status
\* other than 200) escapes the per-record check and aborts the field pass.
C7_RequestErrorAbortsPass ==
    (ByPass /\ outcome.field \in {"cep", "cnpj"} /\ outcome.requested
       /\ FailedAnswer(outcome.answer)) =>
        /\ outcome.exc # "ok"
        /\ pc = "raised"

\* C7, amended: a failed registry request never escapes the per-record check.
\* The check returns valid = false with the request error's text as reason, no
\* call is left by an APIRequestError, and in a field pass the record is
\* given its outcome like any other, so the pass goes on.
C7_RequestErrorIsolated ==
    /\ (outcome.field \in {"cep", "cnpj"} /\ outcome.requested
          /\ FailedAnswer(outcome.answer)) =>
           /\ outcome.exc = "ok"
           /\ ~outcome.valid
           /\ outcome.reason = Fetch(outcome.answer).msg
    /\ exc.cause # "APIRequestError"
    /\ ByPass =>
           \A k \in 1..Len(requests) :
               FailedAnswer(requests[k].answer) =>
                   [pass |-> requests[k].pass, field |-> requests[k].field,
                    idx |-> requests[k].idx] \in Range(validated)

C7_PassCompletesAfterFailure ==
    /\ ByPass
    /\ pc = "returned"
    /\ Len(dataset) = 2
    /\ Len(requests) > 0
    /\ FailedAnswer(requests[1].answer)
    /\ requests[1].idx = 1
    /\ Len(field_df.table.rows) = 2

\* C8: a CEP lookup answered with status 200 and a payload without the code
\* field is a logical not-found: the check returns valid = false and does not
\* raise.
C8_SentinelIsNotFound ==
    (outcome.field = "cep" /\ outcome.requested /\ ~FailedAnswer(outcome.answer)
       /\ "cep" \notin DOMAIN outcome.answer.payload) =>
        /\ outcome.exc = "ok"
        /\ ~outcome.valid

\* well-formed and, for a CNPJ, with the right check digits
LocallyValid(name, raw) ==
    /\ ~Malformed(name, raw)
    /\ name = "cnpj" => CnpjOracle(Stripped(name, raw))

LocalReasons(name) ==
    IF name = "cep"
    THEN {"CEP cannot be empty.", "Invalid CEP. A valid CEP must have 8 numbers.",
          "Invalid CEP. A CEP must contain only numbers."}
    ELSE {"'NoneType' object has no attribute 'replace'",
          "Invalid CNPJ format. Ensure it contains only numbers.",
          "Invalid CNPJ length. Ensure it has 14 digits.",
          "The provided CNPJ is not valid."}

\* C9: external validation checks the identifier locally first.  Every
\* registry request is for a code that is locally valid; a record whose
\* identifier is not locally valid causes no request; and the clients'
\* validate_cnpj / validate_address return valid = false with the local
\* reason for it.
C9_LocalCheckFirst ==
    /\ \A k \in 1..Len(requests) :
           IF requests[k].field = "cep"
           THEN Len(requests[k].code) = 8 /\ IsDigit(requests[k].code)
           ELSE CnpjOracle(requests[k].code)
    /\ (outcome.field \in {"cep", "cnpj"} /\ ~LocallyValid(outcome.field, outcome.raw)) =>
           ~outcome.requested
    /\ (ByClient /\ outcome.field \in {"cep", "cnpj"}
          /\ ~LocallyValid(outcome.field, outcome.raw)) =>
           /\ outcome.exc = "ok"
           /\ ~outcome.valid
           /\ outcome.reason \in LocalReasons(outcome.field)

C9_BadChecksumShortCircuits ==
    /\ entry = "validate_cnpj"
    /\ pc = "returned"
    /\ outcome.raw = CnpjBadChecksum
    /\ ~outcome.valid
    /\ requests = <<>>

\* C10: when the registry answers a CNPJ lookup with status 200, the check
\* returns valid = true exactly when the payload matches the queried CNPJ
\* (_cnpj_match), and on a mismatch its reason says that the CNPJ was not
\* found in the backend.
C10_MismatchIsNotFound ==
    (outcome.field = "cnpj" /\ outcome.requested /\ ~FailedAnswer(outcome.answer)) =>
        /\ outcome.valid <=> CnpjMatch(outcome.webservice, Stripped("cnpj", outcome.raw),
                                       outcome.answer.payload).val
        /\ ~outcome.valid => outcome.reason = "This CNPJ was not found in the API base."

\* the record a field pass checked last
Checked == dataset[outcome.idx]

FullAddress(row) ==
    Truthy(row[colnames.street]) /\ Truthy(row[colnames.city]) /\ Truthy(row[colnames.state])

SearchBackend(o) ==
    /\ o.external
    /\ o.webservice \in DOMAIN CEP_WEBSERVICES
    /\ CEP_WEBSERVICES[o.webservice].supports_address

SearchReasons ==
    {"No data found for the given address.",
     "The only CEP suggested for this address was:",
     "valid CEPs were found for this address.",
     "No valid CEPs found for this address."}

\* C11: for a record without postal code but with street, city and state, on
\* a backend that supports address search, validate_address looks the address
\* up in the registry and decides by the candidates it gets: its reason is one
\* of the address-search reasons.
C11_AddressSearchDecides ==
    (ByPass /\ outcome.field = "cep" /\ SearchBackend(outcome)
       /\ ~Truthy(outcome.raw) /\ FullAddress(Checked)) =>
        /\ outcome.exc = "ok"
        /\ outcome.requested
        /\ outcome.reason \in SearchReasons

Paused(k) == ticks[k].paused

RECURSIVE PausesUpTo(_)
PausesUpTo(k) == IF k = 0 THEN 0 ELSE PausesUpTo(k - 1) + (IF Paused(k) THEN 1 ELSE 0)

\* C12: after each item of a throttled loop the clock is compared with the
\* time of the last reset.  The loop sleeps, once, and resets the reference
\* time to the clock after the sleep exactly when time_step has gone by; a
\* sleep lasts at least time_delay; between the end of a pause and the next
\* pause at least time_step goes by; and the loop has run for at least
\* time_delay times the number of its pauses.
C12_ThrottlePausesOncePerWindow ==
    loop.name # "none" =>
        /\ Len(ticks) = loop.item - 1
        /\ \A k \in 1..Len(ticks) :
               /\ ticks[k].item = k
               /\ Paused(k) <=> ticks[k].at - ticks[k].since >= Throttle[loop.name].time_step
               /\ Paused(k) => ticks[k].resumed - ticks[k].at >= Throttle[loop.name].time_delay
               /\ ~Paused(k) => ticks[k].resumed = ticks[k].at
               /\ (IF k < Len(ticks) THEN ticks[k + 1].since ELSE start_time)
                      = IF Paused(k) THEN ticks[k].resumed ELSE ticks[k].since
        /\ \A j, k \in 1..Len(ticks) :
               (j < k /\ Paused(j) /\ Paused(k)) =>
                   ticks[k].at - ticks[j].resumed >= Throttle[loop.name].time_step
        /\ now >= PausesUpTo(Len(ticks)) * Throttle[loop.name].time_delay

C12_TwoPausesAndOneItemBetween ==
    /\ loop.name = "cep"
    /\ Len(ticks) = 3
    /\ Paused(1)
    /\ ~Paused(2)
    /\ Paused(3)

\* the column names the field passes give their tables
PassColumns ==
    {colnames.customer_id, "cep", "cep_validation", "cep_validation_reason",
     "cnpj", "cnpj_validation", "cnpj_validation_reason",
     "cpf", "cpf_validation", "cpf_validation_reason",
     "phone", "phone_validation", "phone_validation_reason", "possible_mobile",
     "email", "email_validation", "email_validation_reason", "email_deliverability"}

SameFieldTwice(flist) ==
    \E i, j \in 1..Len(flist) :
        /\ i < j
        /\ Lower(flist[i].name) \in KnownFields
        /\ Lower(flist[i].name) = Lower(flist[j].name)

\* C13: the combined table of validate_dataset never holds a renamed or
\* repeated field column, and a field list that configures the same field
\* twice makes validate_dataset raise: no table is returned for it.
C13_CollisionIsConfigError ==
    entry = "validate_dataset" =>
        /\ combined_df.columns \subseteq PassColumns
        /\ SameFieldTwice(fields) => pc # "returned"

\* validate_dataset was left by a failure of the configuration: a field list
\* _check_fields must reject, a missing column or column name, or a client
\* that cannot be built for the webservice named
ConfigFailure ==
    /\ entry = "validate_dataset"
    /\ pc = "raised"
    /\ \/ exc.stage = "check_fields" /\ ~Acceptable(fields)
       \/ exc.stage \in {"select", "dataset", "columns"}
       \/ exc.cause = "APIConfigError"

\* C14: a configuration failure leaves validate_dataset as
\* CustomerDataValidatorError, never as an exception of another type.
C14_ConfigFailureIsValidatorError == ConfigFailure => exc.type = CDVE

\* C15: in the CNPJ pass with external = false the check of a record does not
\* raise and makes no registry request, and the record is valid exactly when
\* its sanitized CNPJ has 14 digits and the right check digits.
C15_LocalCnpjPassDecides ==
    (ByPass /\ outcome.field = "cnpj" /\ ~outcome.external) =>
        /\ outcome.exc = "ok"
        /\ ~outcome.requested
        /\ outcome.valid <=> LocallyValid("cnpj", outcome.raw)
        /\ outcome.reason # ""

SuccessReasons == {"Valid CEP.", "Valid CEP format.", "Valid CNPJ.", "Valid CPF."}

\* C16: the outcome of a CEP, CNPJ or CPF check has a reason that is not
\* empty, whether it is valid or not, and an outcome that is not valid does
\* not carry the reason of a valid one.
C16_ReasonNeverEmpty ==
    (outcome.field \in {"cep", "cnpj", "cpf"} /\ outcome.exc = "ok") =>
        /\ outcome.reason # ""
        /\ ~outcome.valid => outcome.reason \notin SuccessReasons

\* C17: in an external CEP pass, a record without postal code and without
\* street, city or state gets valid = false with a reason; the check does not
\* raise, makes no registry request, and the record is given its outcome like
\* any other, so the pass goes on.
C17_InsufficientAddressIsNegative ==
    (ByPass /\ outcome.field = "cep" /\ outcome.external /\ BackendUsable(outcome)
       /\ ~Truthy(outcome.raw) /\ ~FullAddress(Checked)) =>
        /\ outcome.exc = "ok"
        /\ ~outcome.valid
        /\ outcome.reason # ""
        /\ ~outcome.requested
        /\ \E k \in 1..Len(validated) :
               validated[k].field = "cep" /\ validated[k].idx = outcome.idx

C17_PassCompletesAfterInsufficient ==
    /\ ByPass
    /\ pc = "returned"
    /\ field_df.name = "cep"
    /\ pass.external
    /\ Len(dataset) = 2
    /\ ~Truthy(dataset[1].cep)
    /\ ~Truthy(dataset[1].street)
    /\ ~field_df.table.rows[1]["cep_validation"]
    /\ Len(field_df.table.rows) = 2

Fetched == call.fn \in {"CepAPI._fetch_by_cep", "CnpjAPI.fetch_company_info"}
SuccessStatus(answer) == answer.transport_ok /\ answer.status \in 200..299

\* C18: a registry lookup returns the payload of the response only when the
\* request completed with a success status; with any other status, and with
\* any transport failure, it raises APIRequestError.
C18_PayloadOnlyOnSuccess ==
    Fetched =>
        /\ ret.exc = "ok" => SuccessStatus(call.arg) /\ ret.val = call.arg.payload
        /\ ~SuccessStatus(call.arg) => ret.exc = "APIRequestError"

C18_FailedRequestsRaise ==
    /\ call.fn = "CnpjAPI.fetch_company_info"
    /\ call.arg.transport_ok
    /\ call.arg.status = 404
    /\ call.arg.payload = [message |-> "not found"]
    /\ ret.exc = "APIRequestError"

Constructed == call.fn \in {"CepAPI", "CnpjAPI"}
CatalogFor(fn) == IF fn = "CepAPI" THEN CEP_WEBSERVICES ELSE CNPJ_WEBSERVICES

\* C19: constructing CepAPI or CnpjAPI with a name that is no key of its
\* catalog raises APIConfigError and yields no client; with a key of the
\* catalog it yields a client whose base_url is the endpoint template of that
\* entry.  (The catalogs are module constants that no operation assigns to.)
C19_ClientNeedsCatalogKey ==
    Constructed =>
        IF call.arg \in DOMAIN CatalogFor(call.fn)
        THEN /\ ret.exc = "ok"
             /\ ret.val.webservice = call.arg
             /\ ret.val.base_url = CatalogFor(call.fn)[call.arg].BASE_URL
        ELSE /\ ret.exc = "APIConfigError"
             /\ ret.val = NoneVal

C19_DisplayNameIsNoKey ==
    /\ call.fn = "CepAPI"
    /\ call.arg = "brasil_aberto"
    /\ ret.exc = "APIConfigError"

Sanitized ==
    call.fn \in {"Address._sanitize_cep", "CPFValidator._sanitize_cpf",
                 "CNPJValidator._sanitize_cnpj"}
IdLength(fn) ==
    CASE fn = "Address._sanitize_cep" -> 8
      [] fn = "CPFValidator._sanitize_cpf" -> 11
      [] fn = "CNPJValidator._sanitize_cnpj" -> 14
FormatError(fn) ==
    CASE fn = "Address._sanitize_cep" -> "CEPFormatError"
      [] fn = "CPFValidator._sanitize_cpf" -> "CPFValueError"
      [] fn = "CNPJValidator._sanitize_cnpj" -> "CNPJValueError"
WithoutSeparators(raw) == SelectSeq(raw, LAMBDA c : c \notin {".", "-", "/", " "})

\* C20: for CEP, CPF and CNPJ, sanitize removes dots, dashes, slashes and
\* spaces from the raw value and returns what remains when that is all digits
\* and of the length of the type (8, 11, 14); otherwise it fails with the
\* format error of the type.
C20_SanitizeStripsFourSeparators ==
    Sanitized =>
        IF IsDigit(WithoutSeparators(call.arg))
             /\ Len(WithoutSeparators(call.arg)) = IdLength(call.fn)
        THEN ret.exc = "ok" /\ ret.val = WithoutSeparators(call.arg)
        ELSE ret.exc = FormatError(call.fn)

\* the outcome the four cases give to a raw CPF, decided on what is left of
\* it once the separators are removed
CpfClass(raw) ==
    LET rest == Stripped("cpf", raw)
    IN  IF \E i \in 1..Len(rest) : rest[i] \notin Digits
        THEN [valid |-> FALSE,
              reason |-> "Invalid CPF format. Ensure it contains only numbers."]
        ELSE IF Len(rest) # 11
        THEN [valid |-> FALSE, reason |-> "Invalid CPF length. Ensure it has 11 digits."]
        ELSE IF ~CpfOracle(rest)
        THEN [valid |-> FALSE, reason |-> "The provided CPF is not valid."]
        ELSE [valid |-> TRUE, reason |-> "Valid CPF."]

\* C21: validate_cpfs never raises and gives every input exactly one of four
\* outcomes: the 'only numbers' reason when characters that are no digits
\* remain, the '11 digits' reason when the number of digits is wrong, the
\* 'not valid' reason when the checksum fails, and valid with 'Valid CPF.'
\* otherwise.
C21_CpfClassified ==
    call.fn = "CPFValidator.validate_cpfs" =>
        /\ ret.exc = "ok"
        /\ Len(ret.val) = Len(call.arg)
        /\ \A i \in 1..Len(call.arg) :
               /\ ret.val[i].cpf = call.arg[i]
               /\ ret.val[i].valid = CpfClass(call.arg[i]).valid
               /\ ret.val[i].reason = CpfClass(call.arg[i]).reason

Compared == call.fn = "CepAPI._compute_similarity"
Comparable(addr1, addr2, attr) == Truthy(addr1[attr]) /\ Truthy(addr2[attr])

\* C22: _compute_similarity returns a score between 0 and 1 (0 and 1000
\* thousandths) and raises nothing; two addresses with the same values and at
\* least one attribute that is not empty score 1; two addresses with no
\* attribute that both hold score 0.
C22_ScoreBounds ==
    Compared =>
        /\ ret.exc = "ok"
        /\ ret.val \in 0..1000
        /\ (call.arg[1] = call.arg[2]
              /\ \E attr \in DOMAIN NoAddress : Truthy(call.arg[1][attr]))
             => ret.val = 1000
        /\ (\A attr \in DOMAIN NoAddress : ~Comparable(call.arg[1], call.arg[2], attr))
             => ret.val = 0

C22_IdenticalScoreOne ==
    /\ Compared
    /\ call.arg[1] = call.arg[2]
    /\ Truthy(call.arg[1].cep)
    /\ Truthy(call.arg[1].city)
    /\ ret.val = 1000

Filtered == call.fn = "CepAPI.filter_addresses_by_similarity"

\* pos places the entries of a result on the candidates they come from
Placed(target, candidates, result, pos) ==
    /\ \A k, l \in DOMAIN result : k # l => pos[k] # pos[l]
    /\ {pos[k] : k \in DOMAIN result}
         = {i \in DOMAIN candidates : ComputeSimilarity(target, candidates[i]) > 0}
    /\ \A k \in DOMAIN result :
           /\ result[k].address = ToDict(candidates[pos[k]])
           /\ result[k].similarity_ratio = ComputeSimilarity(target, candidates[pos[k]])
    /\ \A k, l \in DOMAIN result :
           (k < l /\ result[k].similarity_ratio = result[l].similarity_ratio)
             => pos[k] < pos[l]

\* C23: filter_addresses_by_similarity returns the candidates of score > 0,
\* each once, by non-increasing score, and candidates of equal score in the
\* order they have in the input list.
C23_FilteredRankedStable ==
    Filtered =>
        /\ ret.exc = "ok"
        /\ \A k \in 1..(Len(ret.val) - 1) :
               ret.val[k].similarity_ratio >= ret.val[k + 1].similarity_ratio
        /\ \E pos \in [DOMAIN ret.val -> DOMAIN call.arg[2]] :
               Placed(call.arg[1], call.arg[2], ret.val, pos)

C23_TieAfterReordering ==
    /\ Filtered
    /\ Len(call.arg[2]) = 3
    /\ Len(ret.val) = 3
    /\ ret.val[1].similarity_ratio = ret.val[2].similarity_ratio
    /\ ret.val[1].address # ret.val[2].address
    /\ ret.val[2].similarity_ratio > ret.val[3].similarity_ratio
    /\ ret.val[3].address = ToDict(call.arg[2][1])

\* the attributes the score is said to be taken over
ScoredAttributes ==
    <<"street", "district", "city", "state", "ddd", "ibge", "gia", "siafi">>

RECURSIVE RatiosOver(_, _, _, _)
RatiosOver(attrs, addr1, addr2, k) ==
    IF k > Len(attrs) THEN <<>>
    ELSE (IF Comparable(addr1, addr2, attrs[k])
          THEN <<SequenceMatcherRatio(addr1[attrs[k]], addr2[attrs[k]])>>
          ELSE <<>>) \o RatiosOver(attrs, addr1, addr2, k + 1)

\* C26: the score is the mean, rounded to 3 decimals, of the ratios of the
\* attributes street, district, city, state, ddd, ibge, gia and siafi that
\* both addresses hold; no other attribute, such as the postal code or the
\* complement, has a part in it.
C26_MeanOverScoredAttributes ==
    Compared =>
        ret.val = SimilarityOf(RatiosOver(ScoredAttributes, call.arg[1], call.arg[2], 1))

SanitizedTwice == Sanitized /\ "first" \in DOMAIN call

\* C24: sanitation is idempotent: when a raw CEP, CPF or CNPJ sanitizes,
\* sanitizing the result again succeeds and returns the same string; and a
\* string of digits of the right length is returned unchanged.
C24_SanitizeIdempotent ==
    /\ SanitizedTwice => ret.exc = "ok" /\ ret.val = call.arg
    /\ (Sanitized /\ IsDigit(call.arg) /\ Len(call.arg) = IdLength(call.fn))
         => ret.exc = "ok" /\ ret.val = call.arg

C24_FormattedThenDigits ==
    /\ SanitizedTwice
    /\ call.fn = "Address._sanitize_cep"
    /\ call.first = CepDashed
    /\ call.arg = CepDigits
    /\ ret.val = CepDigits

\* b is validated right after a: the next record of the same pass, the first
\* record of the same e-mail pass for its next column, or the first record of
\* a later pass once the pass of a has gone through the dataset
Follows(a, b) ==
    \/ b.pass = a.pass /\ b.idx = a.idx + 1
    \/ b.pass = a.pass /\ a.field = "email" /\ a.idx = Len(dataset) /\ b.idx = 1
    \/ b.pass > a.pass /\ a.idx = Len(dataset) /\ b.idx = 1

\* C25: in validate_dataset the passes run in the order of the field list,
\* each to its end before the next begins; within a pass the records are
\* validated one at a time in the order of the dataset; and no record gets
\* more than one registry request in a pass.
C25_PassesAndRecordsInOrder ==
    entry = "validate_dataset" =>
        /\ validated # <<>> => validated[1].idx = 1
        /\ \A k \in 1..(Len(validated) - 1) : Follows(validated[k], validated[k + 1])
        /\ \A k \in 1..Len(validated) :
               validated[k].field = Lower(fields[validated[k].pass].name)
        /\ pc = "pass" =>
               \A k \in 1..Len(validated) :
                   validated[k].pass < fi \/ validated[k].idx < ri
        /\ \A k, l \in 1..Len(requests) :
               k < l => \/ requests[k].pass < requests[l].pass
                        \/ /\ requests[k].pass = requests[l].pass
                           /\ requests[k].idx < requests[l].idx

C25_TwoPassesTwoRequests ==
    /\ entry = "validate_dataset"
    /\ pc = "returned"
    /\ Len(validated) = 4
    /\ validated[2].pass = 1
    /\ validated[3].pass = 2
    /\ Len(requests) = 2
    /\ requests[1].idx = 1
    /\ requests[2].idx = 2

\* C27: for every dataset that _check_dataset accepts, one in which a
\* customer id occurs on several rows included, the table validate_dataset
\* returns has as many rows as the dataset.
C27_OneRowPerRecord ==
    (entry = "validate_dataset" /\ pc = "returned") =>
        Len(combined_df.rows) = Len(dataset)

\* _check_fields rejects the entry when it is the whole list
RejectedAlone(f) == CheckFields(<<f>>).exc # "ok"

\* C28: whether _check_fields accepts an entry depends on the entry alone and
\* not on the entries before it: a list is rejected exactly when one of its
\* entries is rejected on its own, whatever the order of the list.
C28_CheckFieldsEntrywise ==
    entry = "validate_dataset" =>
        (Rejected <=> \E i \in 1..Len(fields) : RejectedAlone(fields[i]))

ConfiguresCep(f) == f.name = "CEP" /\ f.external /\ TruthyStr(f.webservice)

\* C29: the CEP webservice names that _check_fields accepts are the names
\* the CepAPI constructor accepts: a CEP pass that _check_fields let through
\* never fails at the construction of its client, and a list that configures
\* CEP with a key of CEP_WEBSERVICES is not rejected.
C29_ConfigurableIffConstructible ==
    entry = "validate_dataset" =>
        /\ ~(pc = "raised" /\ pass.name = "cep" /\ exc.cause = "APIConfigError")
        /\ (Len(fields) = 1 /\ ConfiguresCep(fields[1])
              /\ fields[1].webservice \in DOMAIN CEP_WEBSERVICES) => ~Rejected

\* C30: every entry of the field list either gives its validation columns to
\* the table validate_dataset returns or makes it raise: no entry, whatever
\* its name, is passed over.
C30_NoEntrySkipped ==
    (entry = "validate_dataset" /\ pc = "returned") =>
        \A i \in 1..Len(fields) :
            /\ Lower(fields[i].name) \in KnownFields
            /\ (Lower(fields[i].name) \o "_validation") \in combined_df.columns

====
